---- MODULE Spec2Model ----
(***************************************************************************)
(* Model of dplex: the generic CRUD service (DPService), the repository    *)
(* (BaseDBRepo), the QueryBuilder and the FilterApplier.                    *)
(*                                                                         *)
(* Python values are records [ty, v]: ty is the runtime type of the value  *)
(* (what isinstance sees), v a small integer. Python None and SQL NULL are *)
(* the same value, NoneV.                                                  *)
(***************************************************************************)
EXTENDS Integers, Sequences, FiniteSets, TLC

VARIABLES
    store,        \* the table as the session sees it: id -> row
    prev,         \* the table before the last service call
    opName,       \* the last service / builder call
    argId,        \* entity_id of the last call
    argPayload,   \* update_data of the last call
    argFlag,      \* include_none of the last call
    argFields,    \* fields_to_update of the last call
    issued,       \* the repository.update_by_id calls the last call made
    resFound,     \* the last call returned an entity (not None)
    resRow,       \* the entity the last call returned
    raised,       \* the exception the last call raised, "none" otherwise
    calls,        \* number of service calls made so far
    qb,           \* the QueryBuilder: [filters]
    fPrev,        \* qb.filters before the last builder call
    fOp,          \* the last builder / applier call
    fCol,         \* its column argument
    fVals,        \* its values argument (where_in, where_not_in)
    fInst,        \* its typed filter argument (apply_*_filter)
    fSchema,      \* its schema argument (apply_filters_from_schema)
    fRaised,      \* the exception it raised, "none" otherwise
    fRows,        \* ids returned by the last find_all
    fCount,       \* number returned by the last count
    dPayload,     \* the field payload given to _detect_filter_type
    dKind,        \* the filter class it returned, "None" when undetermined
    dOp,          \* the last step of the detection run
    pOp,          \* the last read call of the service
    pPage,        \* its page argument
    pPerPage,     \* its per_page argument
    pFilter,      \* its filter argument: [schema, sort, limit, offset]
    pItems,       \* ids of the items it returned
    pTotal,       \* the count it returned
    pRaised,      \* the exception it raised, "none" otherwise
    pQueries,     \* the queries it issued to the store, in order
    pFilterAfter, \* the caller's filter object after the call
    tbl,          \* the table delete_by_ids works on: id -> row version
    delPc,        \* delete_by_ids: "idle", "checked" (after find_by_ids), "done"
    delIds,       \* its entity_ids argument
    delStart,     \* the table when the call started
    delCount,     \* existing_count, the number of rows find_by_ids returned
    delRemoved,   \* the number of rows the call's DELETE removed
    delResult,    \* the number the call returned
    delOther,     \* mutations another caller committed during the call
    sOp,          \* sorting: the last call on the builder
    sBuilder,     \* the builder the sort list is applied to
    sPrev,        \* its ordering clauses before the sort list was applied
    sList,        \* the sort list given to _apply_sort_to_query
    sRaised,      \* the exception _apply_sort_to_query raised, "none" otherwise
    sRows,        \* ids returned by find_all on the builder
    qShared,      \* a builder several find_one / find_all calls share
    qStart,       \* that builder before the first of the calls
    qTask,        \* the calls: task -> [op, pc, original_limit, stmt, rows, raised]
    qOverlap,     \* a call started while another one waited for the store
    dump,         \* split_dump: the lines of the dump file
    dPos,         \* the line the loop reads next; Len(dump) + 2 after finalisation
    current_table,      \* name of the table being written, "none" when None
    current_fp,         \* index of the open table file, 0 when None
    table_index,        \* number of table files opened
    pending_set_lines,  \* buffered SET lines (line numbers)
    pending_drop_lines, \* table name -> buffered DROP lines; absent keys not in DOMAIN
    globals_fp,   \* lines written to 00__globals.sql
    extras_fp,    \* lines written to zz__extras.sql (0 is a comment line)
    table_files,  \* the table files in the order opened: [name, lines]
    dBuffered,    \* the SET lines that were read while no table file was open
    session,      \* [committed, rows, new]: the durable table, the table as the
                  \* transaction sees it, the entities added and not yet flushed
    txOp,         \* the last operation on the session
    txPrev,       \* the durable table before that operation
    kTable,       \* the table of a repository whose key type is int
    kPrev,        \* that table before the last operation
    kOp,          \* the last repository operation called with keys
    kKeys,        \* the keys it was called with
    kStatements,  \* the statements that operation sent to the session
    kRaised,      \* what it raised, "none" when it returned
    kFound        \* the ids of the rows it returned, or counted

updVars == <<store, prev, opName, argId, argPayload, argFlag, argFields,
             issued, resFound, resRow, raised, calls>>

fltVars == <<qb, fPrev, fOp, fCol, fVals, fInst, fSchema, fRaised, fRows, fCount>>

detVars == <<dPayload, dKind, dOp>>

pgVars == <<pOp, pPage, pPerPage, pFilter, pItems, pTotal, pRaised, pQueries, pFilterAfter>>

delVars == <<tbl, delPc, delIds, delStart, delCount, delRemoved, delResult, delOther>>

sortVars == <<sOp, sBuilder, sPrev, sList, sRaised, sRows>>

findVars == <<qShared, qStart, qTask, qOverlap>>

\* The variables of the specifications added after the service reads.
dumpVars == <<dump, dPos, current_table, current_fp, table_index, pending_set_lines,
              pending_drop_lines, globals_fp, extras_fp, table_files, dBuffered>>

txnVars == <<session, txOp, txPrev>>

keyVars == <<kTable, kPrev, kOp, kKeys, kStatements, kRaised, kFound>>

lateVars == <<delVars, sortVars, findVars, dumpVars, txnVars, keyVars>>

earlyVars == <<updVars, fltVars, detVars, pgVars>>

\* What the steps of one part leave alone.
notDelVars == <<earlyVars, sortVars, findVars, dumpVars, txnVars, keyVars>>
notSortVars == <<earlyVars, delVars, findVars, dumpVars, txnVars, keyVars>>
notFindVars == <<earlyVars, delVars, sortVars, dumpVars, txnVars, keyVars>>
notDumpVars == <<earlyVars, delVars, sortVars, findVars, txnVars, keyVars>>
notTxnVars == <<earlyVars, delVars, sortVars, findVars, dumpVars, keyVars>>
notKeyVars == <<earlyVars, delVars, sortVars, findVars, dumpVars, txnVars>>

vars == <<updVars, fltVars, detVars, pgVars, lateVars>>

-----------------------------------------------------------------------------
(* Bounds *)

MaxId == 2          \* ids are 1..MaxId
MaxCalls == 1       \* service calls made from the initial table
MaxFilters == 2     \* operators a builder and the schema applied to it hold together
MaxKeys == 2        \* operator keys of a payload given to the detection
MaxPage == 2        \* page numbers are 0..MaxPage
MaxPerPage == 2     \* page sizes are 0..MaxPerPage
MaxPageOps == 1     \* operators of the field filter of a service read
MaxSorts == 1       \* sort descriptors of the filter of a service read
MaxIdList == 2      \* length of the id list given to delete_by_ids
MaxOther == 1       \* mutations of another caller during one delete_by_ids
MaxSortList == 2    \* descriptors of a sort list given to _apply_sort_to_query
MaxTasks == 2       \* calls that share one builder
MaxLines == 3       \* lines of a dump file

Ids == 1..MaxId

-----------------------------------------------------------------------------
(* Values *)

Val(ty, n) == [ty |-> ty, v |-> n]

NoneV  == Val("none", 0)      \* Python None, SQL NULL
Unset  == Val("unset", 0)     \* field not in model_fields_set
NULL   == Val("marker", 0)    \* the NullMarker singleton

StrVals == {Val("str", 1), Val("str", 2)}

\* The fields of the update schema (UserUpdate) and of the entity.
UpdFields == {"name", "email"}

\* A name that is neither a field of the update schema nor a column.
GhostField == "ghost"

Rows == [UpdFields -> StrVals \cup {NoneV}]

\* An update payload: every field is unset, None, the marker or a value.
Payloads == [UpdFields -> StrVals \cup {Unset, NoneV, NULL}]

Stores == UNION {[S -> Rows] : S \in SUBSET Ids}

\* The attribute value of a payload field: an unset field holds its default.
RawValue(x) == IF x = Unset THEN NoneV ELSE x

\* What model_dump writes for a field value: the marker serialises to null.
NullMarkerDump(x) == IF x = NULL THEN NoneV ELSE x

\* pydantic model_dump(exclude_unset, exclude_none): exclude_none looks at
\* the attribute value, so the marker (which is not None) is kept.
model_dump(update_data, exclude_unset, exclude_none) ==
    LET kept == {f \in DOMAIN update_data :
                    /\ (exclude_unset => update_data[f] # Unset)
                    /\ (exclude_none => RawValue(update_data[f]) # NoneV)}
    IN [f \in kept |-> NullMarkerDump(RawValue(update_data[f]))]

\* Variant: exclude_none applied to the dumped value, dropping the marker too.
make_update_dict_drop_marker(update_data, include_none) ==
    LET d == model_dump(update_data, TRUE, FALSE)
    IN IF include_none THEN d
       ELSE [f \in {g \in DOMAIN d : d[g] # NoneV} |-> d[f]]

\* Variant: include_none ignored, None always excluded.
make_update_dict_no_flag(update_data, include_none) ==
    model_dump(update_data, TRUE, TRUE)

\* DPService._make_update_dict in the automatic mode (fields_to_update None).
make_update_dict(update_data, include_none) ==
    IF include_none
    THEN model_dump(update_data, TRUE, FALSE)
    ELSE model_dump(update_data, TRUE, TRUE)

\* Variant: the explicit field list read from a dump without the unset fields.
make_update_dict_fields_set_only(update_data, fields_to_update) ==
    LET full_dump == model_dump(update_data, TRUE, FALSE)
    IN [f \in {g \in fields_to_update : g \in DOMAIN full_dump} |-> full_dump[f]]

\* DPService._make_update_dict with an explicit field list.
make_update_dict_fields(update_data, fields_to_update) ==
    LET full_dump == model_dump(update_data, FALSE, FALSE)
    IN [f \in {g \in fields_to_update : g \in DOMAIN full_dump} |-> full_dump[f]]

-----------------------------------------------------------------------------
(* Repository *)

\* BaseDBRepo.find_by_id: the row whose id equals entity_id, if any.
find_by_id_found(s, entity_id) == entity_id \in DOMAIN s

NoRow == [f \in UpdFields |-> NoneV]

find_by_id(s, entity_id) == IF entity_id \in DOMAIN s THEN s[entity_id] ELSE NoRow

\* Variant: UPDATE without the WHERE clause.
repo_update_by_id_all_rows(s, entity_id, values) ==
    [i \in DOMAIN s |->
        [f \in DOMAIN s[i] |-> IF f \in DOMAIN values THEN values[f] ELSE s[i][f]]]

\* BaseDBRepo.update_by_id: UPDATE model SET values WHERE id = entity_id.
repo_update_by_id(s, entity_id, values) ==
    [i \in DOMAIN s |->
        IF i = entity_id
        THEN [f \in DOMAIN s[i] |-> IF f \in DOMAIN values THEN values[f] ELSE s[i][f]]
        ELSE s[i]]

-----------------------------------------------------------------------------
(* Filter values and filter schemas *)

\* The fields of the filter schema, in the order it declares them.
FieldOrder == <<"name", "age", "price", "active", "created", "stamp", "nick">>

\* The schema field that is not a column of the filtered model.
NoColumnField == "nick"

\* The columns of the filtered model.
FCols == {FieldOrder[i] : i \in 1..Len(FieldOrder)} \ {NoColumnField}

\* The filter class the schema declares for a field.
FieldKind(f) ==
    CASE f = "name" -> "StringFilter"
      [] f = "age" -> "NumberFilter"
      [] f = "price" -> "NumberFilter"
      [] f = "active" -> "BooleanFilter"
      [] f = "created" -> "DateTimeFilter"
      [] f = "stamp" -> "TimestampFilter"
      [] f = "nick" -> "StringFilter"

\* The runtime type of the values of a field.
ColType(f) ==
    CASE f = "name" -> "str"
      [] f = "age" -> "int"
      [] f = "price" -> "decimal"
      [] f = "active" -> "bool"
      [] f = "created" -> "datetime"
      [] f = "stamp" -> "int"
      [] f = "nick" -> "str"

True == Val("bool", 1)
False == Val("bool", 0)

ScalarVals(ty) == IF ty = "bool" THEN {False, True} ELSE {Val(ty, 1), Val(ty, 2)}

CommonOps == {"eq", "ne", "in_", "not_in", "is_null", "is_not_null"}

\* FilterApplier._STRING_OPS
STRING_OPS == {"contains", "icontains", "starts_with", "ends_with", "like", "ilike"}

\* FilterApplier._COMPARISON_OPS
COMPARISON_OPS == {"gt", "gte", "lt", "lte", "between"}

\* The dataclass fields of a filter class.
Attrs(kind) ==
    CASE kind = "StringFilter" -> CommonOps \cup STRING_OPS
      [] kind = "NumberFilter" -> CommonOps \cup COMPARISON_OPS
      [] kind \in {"DateTimeFilter", "TimestampFilter"} ->
            CommonOps \cup COMPARISON_OPS \cup {"from_", "to"}
      [] kind = "BooleanFilter" -> {"eq", "ne", "is_null", "is_not_null"}
      [] OTHER -> {}

\* The values a caller gives operator k of field f.
OpVals(f, k) ==
    LET ty == ColType(f)
    IN CASE k \in {"in_", "not_in"} -> {<<>>, <<Val(ty, 1)>>}
         [] k = "between" -> {<<Val(ty, 1), Val(ty, 2)>>}
         [] k \in {"is_null", "is_not_null"} -> {False, True}
         [] k = "eq" -> ScalarVals(ty)
         [] OTHER -> {Val(ty, 1)}

\* A filter with every operator None, as model_dump(exclude_none) leaves it.
EmptyDict == [k \in {} |-> NoneV]

\* A schema with every field None.
EmptySchema == [f \in {} |-> EmptyDict]

\* The filters of field f with at most n operators set.
RECURSIVE DictsUpTo(_, _)
DictsUpTo(f, n) ==
    IF n = 0 THEN {EmptyDict}
    ELSE LET D == DictsUpTo(f, n - 1)
         IN D \cup {d @@ (k :> x) : <<d, k, x>> \in
                       UNION {{<<d, k, x>> : x \in OpVals(f, k)} :
                              <<d, k>> \in {<<d, k>> \in D \X Attrs(FieldKind(f)) :
                                               k \notin DOMAIN d}}}

\* What a caller passes for one field of the schema: None or a filter.
FieldNone == [present |-> FALSE, d |-> EmptyDict]

FieldChoices(f, n) ==
    {FieldNone} \cup (IF n > 0 THEN {[present |-> TRUE, d |-> d] : d \in DictsUpTo(f, n)} ELSE {})

\* The size of a field's filter: its operators, a filter without operators
\* counting one, None counting nothing.
Cost(c) ==
    IF ~c.present THEN 0
    ELSE IF DOMAIN c.d = {} THEN 1 ELSE Cardinality(DOMAIN c.d)

\* The schema instance made of one choice per declared field.
MakeSchema(cs) ==
    [f \in {FieldOrder[i] : i \in {j \in 1..Len(FieldOrder) : cs[j].present}} |->
        cs[CHOOSE i \in 1..Len(FieldOrder) : FieldOrder[i] = f].d]

\* A typed filter instance: its class and its operators that are not None.
Inst(kind, d) == [kind |-> kind, d |-> d]

NoInst == Inst("none", EmptyDict)

-----------------------------------------------------------------------------
(* QueryBuilder *)

\* A condition of the WHERE clause.
Pred(op, col, a, vs) == [op |-> op, col |-> col, a |-> a, vs |-> vs]

\* QueryBuilder.__init__
EmptyBuilder ==
    [filters |-> <<>>, limit_value |-> NoneV, offset_value |-> NoneV, order_by_clauses |-> <<>>]

\* A builder holding nothing but the given conditions.
Builder(filters) == [EmptyBuilder EXCEPT !.filters = filters]

\* QueryBuilder.where
where(filters, condition) == Append(filters, condition)

where_eq(filters, column, value) == where(filters, Pred("eq", column, value, <<>>))
where_ne(filters, column, value) == where(filters, Pred("ne", column, value, <<>>))
where_gt(filters, column, value) == where(filters, Pred("gt", column, value, <<>>))
where_gte(filters, column, value) == where(filters, Pred("gte", column, value, <<>>))
where_lt(filters, column, value) == where(filters, Pred("lt", column, value, <<>>))
where_lte(filters, column, value) == where(filters, Pred("lte", column, value, <<>>))
where_between(filters, column, start, end) ==
    where(filters, Pred("between", column, NoneV, <<start, end>>))
where_is_null(filters, column) == where(filters, Pred("is_null", column, NoneV, <<>>))
where_is_not_null(filters, column) == where(filters, Pred("is_not_null", column, NoneV, <<>>))
where_like(filters, column, pattern) == where(filters, Pred("like", column, NoneV, pattern))
where_ilike(filters, column, pattern) == where(filters, Pred("ilike", column, NoneV, pattern))

\* Variant: an empty list adds no condition.
where_in_skip_empty(filters, column, values) ==
    IF values = <<>> THEN filters
    ELSE where(filters, Pred("in", column, NoneV, values))

\* QueryBuilder.where_in: column.in_([]) for an empty list, column.in_(values) otherwise.
where_in(filters, column, values) ==
    IF values = <<>>
    THEN where(filters, Pred("in", column, NoneV, <<>>))
    ELSE where(filters, Pred("in", column, NoneV, values))

\* Variant: NOT IN of an empty list added as a condition IN of the empty list.
where_not_in_as_in(filters, column, values) ==
    IF values = <<>> THEN where(filters, Pred("in", column, NoneV, <<>>))
    ELSE where(filters, Pred("not_in", column, NoneV, values))

\* QueryBuilder.where_not_in
where_not_in(filters, column, values) ==
    IF values = <<>> THEN filters
    ELSE where(filters, Pred("not_in", column, NoneV, values))

\* The % of a LIKE pattern.
Wild == Val("wild", 0)

\* The text of a LIKE pattern without its wildcards.
Literal(pattern) == SelectSeq(pattern, LAMBDA x : x # Wild)

\* SQL comparison of a column value with a bound; NULL compares as unknown.
Less(x, y) == x.ty = y.ty /\ x.v < y.v

\* Whether a row satisfies a condition (unknown counts as not satisfied).
Holds(p, row) ==
    LET x == row[p.col]
    IN /\ p.op = "is_null" => x = NoneV
       /\ p.op # "is_null" => x # NoneV
       /\ CASE p.op = "eq" -> x = p.a
            [] p.op = "ne" -> x # p.a
            [] p.op = "gt" -> Less(p.a, x)
            [] p.op = "gte" -> Less(p.a, x) \/ x = p.a
            [] p.op = "lt" -> Less(x, p.a)
            [] p.op = "lte" -> Less(x, p.a) \/ x = p.a
            [] p.op = "between" -> /\ (Less(p.vs[1], x) \/ x = p.vs[1])
                                   /\ (Less(x, p.vs[2]) \/ x = p.vs[2])
            [] p.op = "in" -> \E i \in 1..Len(p.vs) : p.vs[i] = x
            [] p.op = "not_in" -> \A i \in 1..Len(p.vs) : p.vs[i] # x
            [] p.op \in {"like", "ilike"} -> Literal(p.vs) \in {<<>>, <<x>>}
            [] OTHER -> TRUE

\* QueryBuilder.limit; a negative limit raises ValueError.
limit(builder, n) ==
    IF n.v < 0 THEN [builder |-> builder, raised |-> "ValueError"]
    ELSE [builder |-> [builder EXCEPT !.limit_value = n], raised |-> "none"]

\* QueryBuilder.offset; a negative offset raises ValueError.
offset(builder, n) ==
    IF n.v < 0 THEN [builder |-> builder, raised |-> "ValueError"]
    ELSE [builder |-> [builder EXCEPT !.offset_value = n], raised |-> "none"]

\* An ordering clause: the column, the direction and the placement of NULLs
\* ("none" when the descriptor leaves it to the store).
Clause(col, desc, nulls) == [col |-> col, desc |-> desc, nulls |-> nulls]

\* QueryBuilder.order_by: one more ordering clause, column.desc() or
\* column.asc().
order_by(builder, column, desc) ==
    [builder EXCEPT !.order_by_clauses = Append(@, Clause(column, desc, "none"))]

\* The builder's order_by_with_nulls: one more ordering clause.
order_by_with_nulls(builder, column, desc_order, nulls_placement) ==
    [builder EXCEPT !.order_by_clauses = Append(@, Clause(column, desc_order, nulls_placement))]

\* Whether value x sorts strictly before value y under an ordering clause.
\* Where the clause does not place the NULLs, they sort as the largest value.
KeyBefore(x, y, c) ==
    IF x = NoneV \/ y = NoneV
    THEN IF x = y THEN FALSE
         ELSE LET nullsFirst == IF c.nulls = "none" THEN c.desc ELSE c.nulls = "first"
              IN (x = NoneV) = nullsFirst
    ELSE IF c.desc THEN Less(y, x) ELSE Less(x, y)

\* Whether row a sorts strictly before row b under ORDER BY clauses.
RECURSIVE RowBefore(_, _, _)
RowBefore(a, b, clauses) ==
    IF clauses = <<>> THEN FALSE
    ELSE LET c == Head(clauses)
         IN IF KeyBefore(a[c.col], b[c.col], c) THEN TRUE
            ELSE IF KeyBefore(b[c.col], a[c.col], c) THEN FALSE
            ELSE RowBefore(a, b, Tail(clauses))

\* ORDER BY: the ids sorted by the clauses, rows that are equal on every
\* clause staying in the store's own order.
RECURSIVE OrderBy(_, _, _)
OrderBy(s, ids, clauses) ==
    IF ids = <<>> THEN <<>>
    ELSE LET n == Len(ids)
             rest == OrderBy(s, SubSeq(ids, 1, n - 1), clauses)
             x == ids[n]
             k == Cardinality({i \in 1..Len(rest) : ~RowBefore(s[x], s[rest[i]], clauses)})
         IN SubSeq(rest, 1, k) \o <<x>> \o SubSeq(rest, k + 1, Len(rest))

\* LIMIT / OFFSET on an ordered result.
Window(ids, limit_value, offset_value) ==
    LET from == IF offset_value = NoneV THEN 1 ELSE offset_value.v + 1
        rows == SubSeq(ids, from, Len(ids))
    IN IF limit_value = NoneV \/ limit_value.v >= Len(rows) THEN rows
       ELSE SubSeq(rows, 1, limit_value.v)

\* The ids of a table in the store's own order.
RECURSIVE IdSeq(_)
IdSeq(S) ==
    IF S = {} THEN <<>>
    ELSE LET m == CHOOSE i \in S : \A j \in S : i <= j
         IN <<m>> \o IdSeq(S \ {m})

\* BaseDBRepo.execute_typed_query: SELECT ... WHERE and_(*builder.filters)
\* ORDER BY ... LIMIT ... OFFSET ...
execute_typed_query(s, builder) ==
    LET matching == SelectSeq(IdSeq(DOMAIN s),
                              LAMBDA i : \A n \in 1..Len(builder.filters) :
                                            Holds(builder.filters[n], s[i]))
    IN Window(OrderBy(s, matching, builder.order_by_clauses),
              builder.limit_value, builder.offset_value)

\* BaseDBRepo.execute_typed_count: SELECT count(*) ... WHERE and_(*builder.filters)
execute_typed_count(s, builder) ==
    Cardinality({i \in DOMAIN s :
                    \A n \in 1..Len(builder.filters) : Holds(builder.filters[n], s[i])})

-----------------------------------------------------------------------------
(* FilterApplier *)

\* The outcome of an applier call: the builder's conditions and the exception.
Outcome(filters, exc) == [filters |-> filters, raised |-> exc]

IsSet(inst, k) == k \in DOMAIN inst.d

\* Python truthiness of an is_null / is_not_null value.
Truthy(x) == x.v # 0

\* Variant: the eq condition is added also when eq is None.
apply_common_ops_eq_always(filters, column, inst) ==
    Outcome(where_eq(filters, column, IF IsSet(inst, "eq") THEN inst.d["eq"] ELSE NoneV), "none")

\* FilterApplier._apply_common_ops; reading filter_data.in_ of a class without
\* that field raises AttributeError after eq and ne were added.
apply_common_ops(filters, column, inst) ==
    LET s1 == IF IsSet(inst, "eq") THEN where_eq(filters, column, inst.d["eq"]) ELSE filters
        s2 == IF IsSet(inst, "ne") THEN where_ne(s1, column, inst.d["ne"]) ELSE s1
        s3 == IF IsSet(inst, "in_") THEN where_in(s2, column, inst.d["in_"]) ELSE s2
        s4 == IF IsSet(inst, "not_in") THEN where_not_in(s3, column, inst.d["not_in"]) ELSE s3
        s5 == IF IsSet(inst, "is_null") /\ Truthy(inst.d["is_null"])
              THEN where_is_null(s4, column) ELSE s4
        s6 == IF IsSet(inst, "is_not_null") /\ Truthy(inst.d["is_not_null"])
              THEN where_is_not_null(s5, column) ELSE s5
    IN IF "in_" \notin Attrs(inst.kind) THEN Outcome(s2, "AttributeError")
       ELSE Outcome(s6, "none")

\* FilterApplier._apply_comparison_ops
apply_comparison_ops(filters, column, inst) ==
    LET s1 == IF IsSet(inst, "gt") THEN where_gt(filters, column, inst.d["gt"]) ELSE filters
        s2 == IF IsSet(inst, "gte") THEN where_gte(s1, column, inst.d["gte"]) ELSE s1
        s3 == IF IsSet(inst, "lt") THEN where_lt(s2, column, inst.d["lt"]) ELSE s2
        s4 == IF IsSet(inst, "lte") THEN where_lte(s3, column, inst.d["lte"]) ELSE s3
        s5 == IF IsSet(inst, "between")
              THEN where_between(s4, column, inst.d["between"][1], inst.d["between"][2])
              ELSE s4
    IN Outcome(s5, "none")

\* FilterApplier._apply_string_ops
apply_string_ops(filters, column, inst) ==
    LET s1 == IF IsSet(inst, "like") THEN where_like(filters, column, <<inst.d["like"]>>) ELSE filters
        s2 == IF IsSet(inst, "ilike") THEN where_ilike(s1, column, <<inst.d["ilike"]>>) ELSE s1
        s3 == IF IsSet(inst, "contains")
              THEN where_like(s2, column, <<Wild, inst.d["contains"], Wild>>) ELSE s2
        s4 == IF IsSet(inst, "icontains")
              THEN where_ilike(s3, column, <<Wild, inst.d["icontains"], Wild>>) ELSE s3
        s5 == IF IsSet(inst, "starts_with")
              THEN where_like(s4, column, <<inst.d["starts_with"], Wild>>) ELSE s4
        s6 == IF IsSet(inst, "ends_with")
              THEN where_like(s5, column, <<Wild, inst.d["ends_with"]>>) ELSE s5
    IN Outcome(s6, "none")

\* FilterApplier.apply_string_filter
apply_string_filter(filters, column, inst) ==
    LET r == apply_common_ops(filters, column, inst)
    IN IF r.raised # "none" THEN r ELSE apply_string_ops(r.filters, column, inst)

\* Variant: the comparison operators are applied before the common ones.
apply_number_filter_comparison_first(filters, column, inst) ==
    LET r == apply_comparison_ops(filters, column, inst)
    IN apply_common_ops(r.filters, column, inst)

\* FilterApplier.apply_number_filter
apply_number_filter(filters, column, inst) ==
    LET r == apply_common_ops(filters, column, inst)
    IN IF r.raised # "none" THEN r ELSE apply_comparison_ops(r.filters, column, inst)

\* FilterApplier.apply_datetime_filter
apply_datetime_filter(filters, column, inst) ==
    LET r == apply_common_ops(filters, column, inst)
    IN IF r.raised # "none" THEN r ELSE apply_comparison_ops(r.filters, column, inst)

\* FilterApplier.apply_boolean_filter
apply_boolean_filter(filters, column, inst) == apply_common_ops(filters, column, inst)

\* isinstance(value, (datetime.datetime, datetime.date))
IsTemporal(value) == value.ty \in {"datetime", "date"}

\* FilterApplier._detect_filter_type_by_value
detect_filter_type_by_value(value) ==
    CASE value.ty = "bool" -> "BooleanFilter"
      [] value.ty = "str" -> "StringFilter"
      [] value.ty \in {"int", "float"} -> "NumberFilter"
      [] IsTemporal(value) -> "DateTimeFilter"
      [] OTHER -> "None"

\* FilterApplier._detect_comparison_filter_type
detect_comparison_filter_type(field_value) ==
    LET ks == SelectSeq(<<"gt", "gte", "lt", "lte">>, LAMBDA k : k \in DOMAIN field_value)
    IN IF ks # <<>>
       THEN IF IsTemporal(field_value[ks[1]]) THEN "DateTimeFilter" ELSE "NumberFilter"
       ELSE IF "between" \in DOMAIN field_value /\ Len(field_value["between"]) > 0
            THEN IF IsTemporal(field_value["between"][1]) THEN "DateTimeFilter" ELSE "NumberFilter"
            ELSE "NumberFilter"

\* Variant: a payload whose kind cannot be told is taken for a NumberFilter.
detect_filter_type_default_number(field_value) ==
    LET keys == DOMAIN field_value
        eqs == SelectSeq(<<"eq", "ne">>, LAMBDA k : k \in keys)
        ins == SelectSeq(<<"in_", "not_in">>, LAMBDA k : k \in keys /\ field_value[k] # <<>>)
    IN IF keys \cap STRING_OPS # {} THEN "StringFilter"
       ELSE IF keys \cap COMPARISON_OPS # {} THEN detect_comparison_filter_type(field_value)
       ELSE IF eqs # <<>> THEN detect_filter_type_by_value(field_value[eqs[1]])
       ELSE IF ins # <<>> THEN detect_filter_type_by_value(field_value[ins[1]][1])
       ELSE "NumberFilter"

\* Variant: the comparison operators are looked at before the string operators.
detect_filter_type_comparison_first(field_value) ==
    LET keys == DOMAIN field_value
    IN IF keys \cap COMPARISON_OPS # {} THEN detect_comparison_filter_type(field_value)
       ELSE IF keys \cap STRING_OPS # {} THEN "StringFilter"
       ELSE "None"

\* FilterApplier._detect_filter_type; "None" when the kind is undetermined.
detect_filter_type(field_value) ==
    LET keys == DOMAIN field_value
        eqs == SelectSeq(<<"eq", "ne">>, LAMBDA k : k \in keys)
        ins == SelectSeq(<<"in_", "not_in">>, LAMBDA k : k \in keys /\ field_value[k] # <<>>)
    IN IF keys \cap STRING_OPS # {} THEN "StringFilter"
       ELSE IF keys \cap COMPARISON_OPS # {} THEN detect_comparison_filter_type(field_value)
       ELSE IF keys \cap {"eq", "ne", "in_", "not_in"} # {}
            THEN IF eqs # <<>> THEN detect_filter_type_by_value(field_value[eqs[1]])
                 ELSE IF ins # <<>> THEN detect_filter_type_by_value(field_value[ins[1]][1])
                 ELSE "None"
       ELSE "None"

\* FilterApplier._apply_filter_by_type; filter_type(**field_value) raises
\* TypeError for a key that is not a field of the dataclass.
apply_filter_by_type(filters, column, filter_type, field_value) ==
    LET inst == Inst(filter_type, field_value)
    IN IF ~(DOMAIN field_value \subseteq Attrs(filter_type)) THEN Outcome(filters, "TypeError")
       ELSE CASE filter_type = "StringFilter" -> apply_string_filter(filters, column, inst)
              [] filter_type = "NumberFilter" -> apply_number_filter(filters, column, inst)
              [] filter_type = "DateTimeFilter" -> apply_datetime_filter(filters, column, inst)
              [] filter_type = "BooleanFilter" -> apply_boolean_filter(filters, column, inst)
              [] OTHER -> Outcome(filters, "none")

\* BaseFilterableFields.get_active_filters: the fields whose filter is not
\* None and has an operator that is not None, in declared order.
get_active_filters(schema) ==
    SelectSeq(FieldOrder, LAMBDA f : f \in DOMAIN schema /\ DOMAIN schema[f] # {})

\* The loop of FilterApplier.apply_filters_from_schema over the active fields.
RECURSIVE apply_fields(_, _, _, _)
apply_fields(filters, model, names, schema) ==
    IF names = <<>> THEN Outcome(filters, "none")
    ELSE LET field_name == Head(names)
             field_value == schema[field_name]
             filter_type == detect_filter_type(field_value)
         IN IF field_name \notin model THEN apply_fields(filters, model, Tail(names), schema)
            ELSE IF filter_type = "None" THEN apply_fields(filters, model, Tail(names), schema)
            ELSE LET r == apply_filter_by_type(filters, field_name, filter_type, field_value)
                 IN IF r.raised # "none" THEN r
                    ELSE apply_fields(r.filters, model, Tail(names), schema)

\* FilterApplier.apply_filters_from_schema
apply_filters_from_schema(filters, model, schema) ==
    apply_fields(filters, model, get_active_filters(schema), schema)

-----------------------------------------------------------------------------
(* Filter objects of the service reads *)

\* Sort(field, direction, nulls)
Sort(field, direction, nulls) == [field |-> field, direction |-> direction, nulls |-> nulls]

\* The fields a sort descriptor may name.
SortFields == {"name", "age", NoColumnField}

Sorts == {Sort(f, d, n) : f \in SortFields, d \in {"asc", "desc"}, n \in {"none", "first"}}

\* The sort lists of at most n descriptors.
RECURSIVE SortListsUpTo(_)
SortListsUpTo(n) ==
    IF n = 0 THEN {<<>>}
    ELSE LET L == SortListsUpTo(n - 1)
         IN L \cup {Append(l, x) : l \in {m \in L : Len(m) = n - 1}, x \in Sorts}

\* A filter object: the field filters and the controls sort, limit, offset.
Filter(schema, sort, lim, off) == [schema |-> schema, sort |-> sort, limit |-> lim, offset |-> off]

NoFilter == Filter(EmptySchema, <<>>, NoneV, NoneV)

\* The field filters of a service read: at most one field, with at most n operators.
PageSchemas(n) ==
    {EmptySchema} \cup UNION {{(FieldOrder[i] :> d) : d \in DictsUpTo(FieldOrder[i], n)} :
                               i \in 1..Len(FieldOrder)}

\* The limit and offset a caller's filter carries.
LimitOffsets == {<<NoneV, NoneV>>, <<Val("int", 1), Val("int", 1)>>}

-----------------------------------------------------------------------------
(* Deleting by a list of ids *)

\* The values of a list.
Elems(l) == {l[n] : n \in 1..Len(l)}

\* The lists of at most n ids.
RECURSIVE IdListsUpTo(_)
IdListsUpTo(n) ==
    IF n = 0 THEN {<<>>}
    ELSE LET L == IdListsUpTo(n - 1)
         IN L \cup {Append(l, i) : l \in {m \in L : Len(m) = n - 1}, i \in Ids}

\* The tables delete_by_ids starts from: any of the ids stored, in version 1.
Tables == UNION {[S -> {1}] : S \in SUBSET Ids}

\* BaseDBRepo.find_by_ids: SELECT ... WHERE id IN (entity_ids).
find_by_ids(t, entity_ids) == IdSeq(DOMAIN t \cap Elems(entity_ids))

\* BaseDBRepo.delete_by_ids: DELETE ... WHERE id IN (entity_ids).
repo_delete_by_ids(t, entity_ids) == [i \in DOMAIN t \ Elems(entity_ids) |-> t[i]]

\* BaseDBRepo.exists_by_id: SELECT count(*) ... WHERE id = entity_id, > 0.
exists_by_id(t, entity_id) == Cardinality({i \in DOMAIN t : i = entity_id}) > 0

\* Variant: the number of ids requested.
existing_count_requested(t, entity_ids) == Len(entity_ids)

\* existing_count of DPService.delete_by_ids: len(find_by_ids(entity_ids)).
existing_count(t, entity_ids) == Len(find_by_ids(t, entity_ids))

\* No delete_by_ids call is running.
IdleDelete ==
    /\ tbl = [i \in {} |-> 1]
    /\ delPc = "idle"
    /\ delIds = <<>>
    /\ delStart = tbl
    /\ delCount = 0
    /\ delRemoved = 0
    /\ delResult = 0
    /\ delOther = 0

\* No sort list has been applied.
IdleSort ==
    /\ sOp = "init"
    /\ sBuilder = EmptyBuilder
    /\ sPrev = <<>>
    /\ sList = <<>>
    /\ sRaised = "none"
    /\ sRows = <<>>

\* A call on the shared builder that has not started.
NoTask == [op |-> "none", pc |-> "idle", original_limit |-> NoneV, stmt |-> EmptyBuilder,
           rows |-> <<>>, raised |-> "none"]

\* No call shares a builder.
IdleFind ==
    /\ qShared = EmptyBuilder
    /\ qStart = EmptyBuilder
    /\ qTask = [t \in 1..MaxTasks |-> NoTask]
    /\ qOverlap = FALSE

\* split_dump at its start, the dump file being d.
DumpStart(d) ==
    /\ dump = d
    /\ dPos = 1
    /\ current_table = "none"
    /\ current_fp = 0
    /\ table_index = 0
    /\ pending_set_lines = <<>>
    /\ pending_drop_lines = <<>>
    /\ globals_fp = <<>>
    /\ extras_fp = <<>>
    /\ table_files = <<>>
    /\ dBuffered = {}

\* No dump is being split.
IdleDump == DumpStart(<<>>)

\* A session that has just begun on the table t.
Begun(t) == [committed |-> t, rows |-> t, new |-> [i \in {} |-> 1]]

\* A session on the empty table, nothing done on it.
IdleTxn ==
    /\ session = Begun([i \in {} |-> 1])
    /\ txOp = "none"
    /\ txPrev = session.committed

\* No repository operation was called with keys.
IdleKey ==
    /\ kTable = [i \in {} |-> 1]
    /\ kPrev = kTable
    /\ kOp = "none"
    /\ kKeys = <<>>
    /\ kStatements = <<>>
    /\ kRaised = "none"
    /\ kFound = {}

\* The specifications added after the service reads are idle.
IdleLate == IdleDelete /\ IdleSort /\ IdleFind /\ IdleDump /\ IdleTxn /\ IdleKey

-----------------------------------------------------------------------------
(* Service *)

\* Variant: the update is issued before the existence check.
update_by_id_update_first(entity_id, update_data, include_none) ==
    /\ calls < MaxCalls
    /\ calls' = calls + 1
    /\ UNCHANGED <<fltVars, detVars, pgVars, lateVars>>
    /\ prev' = store
    /\ opName' = "update_by_id"
    /\ argId' = entity_id
    /\ argPayload' = update_data
    /\ argFlag' = include_none
    /\ argFields' = {}
    /\ raised' = "none"
    /\ LET update_dict == make_update_dict(update_data, include_none)
           after == repo_update_by_id(store, entity_id, update_dict)
       IN /\ store' = after
          /\ issued' = <<[id |-> entity_id, values |-> update_dict]>>
          /\ resFound' = find_by_id_found(after, entity_id)
          /\ resRow' = find_by_id(after, entity_id)

\* DPService.update_by_id
update_by_id(entity_id, update_data, include_none) ==
    /\ calls < MaxCalls
    /\ calls' = calls + 1
    /\ UNCHANGED <<fltVars, detVars, pgVars, lateVars>>
    /\ prev' = store
    /\ opName' = "update_by_id"
    /\ argId' = entity_id
    /\ argPayload' = update_data
    /\ argFlag' = include_none
    /\ argFields' = {}
    /\ raised' = "none"
    /\ IF ~find_by_id_found(store, entity_id)
       THEN /\ store' = store
            /\ issued' = <<>>
            /\ resFound' = FALSE
            /\ resRow' = NoRow
       ELSE LET update_dict == make_update_dict(update_data, include_none)
                after == repo_update_by_id(store, entity_id, update_dict)
            IN /\ store' = after
               /\ issued' = <<[id |-> entity_id, values |-> update_dict]>>
               /\ resFound' = find_by_id_found(after, entity_id)
               /\ resRow' = find_by_id(after, entity_id)

\* DPService.update_by_id_with_fields
update_by_id_with_fields(entity_id, update_data, fields_to_update) ==
    /\ calls < MaxCalls
    /\ calls' = calls + 1
    /\ UNCHANGED <<fltVars, detVars, pgVars, lateVars>>
    /\ prev' = store
    /\ opName' = "update_by_id_with_fields"
    /\ argId' = entity_id
    /\ argPayload' = update_data
    /\ argFlag' = FALSE
    /\ argFields' = fields_to_update
    /\ raised' = "none"
    /\ IF ~find_by_id_found(store, entity_id)
       THEN /\ store' = store
            /\ issued' = <<>>
            /\ resFound' = FALSE
            /\ resRow' = NoRow
       ELSE LET update_dict == make_update_dict_fields(update_data, fields_to_update)
                after == repo_update_by_id(store, entity_id, update_dict)
            IN /\ store' = after
               /\ issued' = <<[id |-> entity_id, values |-> update_dict]>>
               /\ resFound' = find_by_id_found(after, entity_id)
               /\ resRow' = find_by_id(after, entity_id)

InitUpdate ==
    /\ store \in Stores
    /\ prev = store
    /\ opName = "init"
    /\ argId = 1
    /\ argPayload = [f \in UpdFields |-> Unset]
    /\ argFlag = FALSE
    /\ argFields = {}
    /\ issued = <<>>
    /\ resFound = FALSE
    /\ resRow = NoRow
    /\ raised = "none"
    /\ calls = 0
    /\ qb = EmptyBuilder
    /\ fPrev = <<>>
    /\ fOp = "init"
    /\ fCol = "none"
    /\ fVals = <<>>
    /\ fInst = NoInst
    /\ fSchema = EmptySchema
    /\ fRaised = "none"
    /\ fRows = <<>>
    /\ fCount = 0
    /\ dPayload = EmptyDict
    /\ dKind = "None"
    /\ dOp = "init"
    /\ pOp = "init"
    /\ pPage = 1
    /\ pPerPage = 1
    /\ pFilter = NoFilter
    /\ pItems = <<>>
    /\ pTotal = 0
    /\ pRaised = "none"
    /\ pQueries = <<>>
    /\ pFilterAfter = NoFilter
    /\ IdleLate

DoUpdateById ==
    \E i \in Ids, p \in Payloads, b \in BOOLEAN : update_by_id(i, p, b)

DoUpdateByIdWithFields ==
    \E i \in Ids, p \in Payloads, fs \in SUBSET (UpdFields \cup {GhostField}) :
        update_by_id_with_fields(i, p, fs)

NextUpdate == DoUpdateById \/ DoUpdateByIdWithFields

SpecUpdate == InitUpdate /\ [][NextUpdate]_vars

-----------------------------------------------------------------------------
(* Building and running a query *)

\* The table the queries run on: a row of first values, a row of second
\* values, a row of NULLs and a row mixing first and second values.
FilterTable ==
    (1 :> [f \in FCols |-> IF ColType(f) = "bool" THEN True ELSE Val(ColType(f), 1)])
    @@ (2 :> [f \in FCols |-> IF ColType(f) = "bool" THEN False ELSE Val(ColType(f), 2)])
    @@ (3 :> [f \in FCols |-> NoneV])
    @@ (4 :> [f \in FCols |-> IF ColType(f) = "bool" THEN False
                              ELSE Val(ColType(f), IF f \in {"name", "price", "stamp"} THEN 1 ELSE 2)])

\* The builder is still being filled: no applier call and no fetch yet.
Building == fOp \in {"query", "where_eq"}

\* Operators the next call may add to the builder.
Room == MaxFilters - Len(qb.filters)

\* A builder call: the conditions become r.filters, the arguments are recorded.
BuilderCall(op, column, values, inst, schema, r) ==
    /\ qb' = [qb EXCEPT !.filters = r.filters]
    /\ fPrev' = qb.filters
    /\ fOp' = op
    /\ fCol' = column
    /\ fVals' = values
    /\ fInst' = inst
    /\ fSchema' = schema
    /\ fRaised' = r.raised
    /\ UNCHANGED <<fRows, fCount>>
    /\ UNCHANGED <<updVars, detVars, pgVars, lateVars>>

\* BaseDBRepo.query: a fresh builder.
query ==
    /\ qb' = EmptyBuilder
    /\ fPrev' = <<>>
    /\ fOp' = "query"
    /\ fCol' = "none"
    /\ fVals' = <<>>
    /\ fInst' = NoInst
    /\ fSchema' = EmptySchema
    /\ fRaised' = "none"
    /\ fRows' = <<>>
    /\ fCount' = 0
    /\ UNCHANGED <<updVars, detVars, pgVars, lateVars>>

DoWhereEq ==
    /\ fOp = "query"
    /\ Room > 0
    /\ \E c \in FCols : \E v \in ScalarVals(ColType(c)) :
          BuilderCall("where_eq", c, <<v>>, NoInst, EmptySchema,
                      Outcome(where_eq(qb.filters, c, v), "none"))

DoWhereIn ==
    /\ Building
    /\ Room > 0
    /\ \E c \in FCols : \E vals \in OpVals(c, "in_") :
          BuilderCall("where_in", c, vals, NoInst, EmptySchema,
                      Outcome(where_in(qb.filters, c, vals), "none"))

DoWhereNotIn ==
    /\ Building
    /\ Room > 0
    /\ \E c \in FCols : \E vals \in OpVals(c, "not_in") :
          BuilderCall("where_not_in", c, vals, NoInst, EmptySchema,
                      Outcome(where_not_in(qb.filters, c, vals), "none"))

DoApplyStringFilter ==
    /\ Building
    /\ \E c \in {f \in FCols : FieldKind(f) = "StringFilter"} : \E d \in DictsUpTo(c, Room) :
          BuilderCall("apply_string_filter", c, <<>>, Inst("StringFilter", d), EmptySchema,
                      apply_string_filter(qb.filters, c, Inst("StringFilter", d)))

DoApplyNumberFilter ==
    /\ Building
    /\ \E c \in {f \in FCols : FieldKind(f) = "NumberFilter"} : \E d \in DictsUpTo(c, Room) :
          BuilderCall("apply_number_filter", c, <<>>, Inst("NumberFilter", d), EmptySchema,
                      apply_number_filter(qb.filters, c, Inst("NumberFilter", d)))

DoApplyDatetimeFilter ==
    /\ Building
    /\ \E c \in {f \in FCols : FieldKind(f) \in {"DateTimeFilter", "TimestampFilter"}} :
       \E d \in DictsUpTo(c, Room) :
          BuilderCall("apply_datetime_filter", c, <<>>, Inst(FieldKind(c), d), EmptySchema,
                      apply_datetime_filter(qb.filters, c, Inst(FieldKind(c), d)))

DoApplyBooleanFilter ==
    /\ Building
    /\ \E c \in {f \in FCols : FieldKind(f) = "BooleanFilter"} : \E d \in DictsUpTo(c, Room) :
          BuilderCall("apply_boolean_filter", c, <<>>, Inst("BooleanFilter", d), EmptySchema,
                      apply_boolean_filter(qb.filters, c, Inst("BooleanFilter", d)))

ApplySchemaCall(schema) ==
    BuilderCall("apply_filters_from_schema", "none", <<>>, NoInst, schema,
                apply_filters_from_schema(qb.filters, FCols, schema))

DoApplyFiltersFromSchema ==
    /\ Building
    /\ \E c1 \in FieldChoices(FieldOrder[1], Room) :
       \E c2 \in FieldChoices(FieldOrder[2], Room - Cost(c1)) :
       \E c3 \in FieldChoices(FieldOrder[3], Room - Cost(c1) - Cost(c2)) :
       \E c4 \in FieldChoices(FieldOrder[4], Room - Cost(c1) - Cost(c2) - Cost(c3)) :
       \E c5 \in FieldChoices(FieldOrder[5], Room - Cost(c1) - Cost(c2) - Cost(c3) - Cost(c4)) :
       \E c6 \in FieldChoices(FieldOrder[6], Room - Cost(c1) - Cost(c2) - Cost(c3) - Cost(c4)
                                                 - Cost(c5)) :
       \E c7 \in FieldChoices(FieldOrder[7], Room - Cost(c1) - Cost(c2) - Cost(c3) - Cost(c4)
                                                 - Cost(c5) - Cost(c6)) :
          ApplySchemaCall(MakeSchema(<<c1, c2, c3, c4, c5, c6, c7>>))

\* QueryBuilder.find_all
find_all ==
    /\ fOp \notin {"init", "find_all", "count"}
    /\ fRows' = execute_typed_query(store, qb)
    /\ fOp' = "find_all"
    /\ fPrev' = qb.filters
    /\ fCol' = "none"
    /\ fVals' = <<>>
    /\ fInst' = NoInst
    /\ fSchema' = EmptySchema
    /\ fRaised' = "none"
    /\ UNCHANGED <<qb, fCount>>
    /\ UNCHANGED <<updVars, detVars, pgVars, lateVars>>

\* QueryBuilder.count
count ==
    /\ fOp \notin {"init", "find_all", "count"}
    /\ fCount' = execute_typed_count(store, qb)
    /\ fOp' = "count"
    /\ fPrev' = qb.filters
    /\ fCol' = "none"
    /\ fVals' = <<>>
    /\ fInst' = NoInst
    /\ fSchema' = EmptySchema
    /\ fRaised' = "none"
    /\ UNCHANGED <<qb, fRows>>
    /\ UNCHANGED <<updVars, detVars, pgVars, lateVars>>

\* The variables of the update, filter, detection and read parts before any
\* call, over the table of the filter part.
IdleEarly ==
    /\ store = FilterTable
    /\ prev = store
    /\ opName = "init"
    /\ argId = 1
    /\ argPayload = [f \in UpdFields |-> Unset]
    /\ argFlag = FALSE
    /\ argFields = {}
    /\ issued = <<>>
    /\ resFound = FALSE
    /\ resRow = NoRow
    /\ raised = "none"
    /\ calls = 0
    /\ qb = EmptyBuilder
    /\ fPrev = <<>>
    /\ fOp = "init"
    /\ fCol = "none"
    /\ fVals = <<>>
    /\ fInst = NoInst
    /\ fSchema = EmptySchema
    /\ fRaised = "none"
    /\ fRows = <<>>
    /\ fCount = 0
    /\ dPayload = EmptyDict
    /\ dKind = "None"
    /\ dOp = "init"
    /\ pOp = "init"
    /\ pPage = 1
    /\ pPerPage = 1
    /\ pFilter = NoFilter
    /\ pItems = <<>>
    /\ pTotal = 0
    /\ pRaised = "none"
    /\ pQueries = <<>>
    /\ pFilterAfter = NoFilter

InitFilter == IdleEarly /\ IdleLate

NextFilter ==
    \/ query
    \/ DoWhereEq
    \/ DoWhereIn
    \/ DoWhereNotIn
    \/ DoApplyStringFilter
    \/ DoApplyNumberFilter
    \/ DoApplyDatetimeFilter
    \/ DoApplyBooleanFilter
    \/ DoApplyFiltersFromSchema
    \/ find_all
    \/ count

SpecFilter == InitFilter /\ [][NextFilter]_vars

-----------------------------------------------------------------------------
(* Detecting the filter class of a payload *)

\* The runtime types of the values a payload may hold.
AnyTypes == {"str", "int", "bool", "datetime", "date", "time", "decimal"}

\* The operator keys of the filter classes.
PayloadKeys == CommonOps \cup STRING_OPS \cup COMPARISON_OPS \cup {"from_", "to"}

\* The values a payload may hold under key k (never None: get_active_filters
\* removes the None operators before the detection sees the payload).
PayloadVals(k) ==
    CASE k \in STRING_OPS -> {Val("str", 1)}
      [] k \in {"in_", "not_in"} -> {<<>>} \cup {<<Val(ty, 1)>> : ty \in AnyTypes}
      [] k = "between" -> {<<Val(ty, 1), Val(ty, 2)>> : ty \in AnyTypes}
      [] k \in {"is_null", "is_not_null"} -> {False, True}
      [] OTHER -> {Val(ty, 1) : ty \in AnyTypes}

\* The caller sets one more operator of the payload.
SetOperator ==
    /\ dOp \in {"init", "payload"}
    /\ Cardinality(DOMAIN dPayload) < MaxKeys
    /\ \E k \in PayloadKeys \ DOMAIN dPayload : \E x \in PayloadVals(k) :
          dPayload' = dPayload @@ (k :> x)
    /\ dOp' = "payload"
    /\ dKind' = "None"
    /\ UNCHANGED <<updVars, fltVars, pgVars, lateVars>>

\* FilterApplier._detect_filter_type on the payload.
DetectFilterType ==
    /\ dOp \in {"init", "payload"}
    /\ dKind' = detect_filter_type(dPayload)
    /\ dOp' = "detect"
    /\ UNCHANGED <<dPayload, updVars, fltVars, pgVars, lateVars>>

InitDetect == InitFilter

NextDetect ==
    \/ SetOperator
    \/ DetectFilterType

SpecDetect == InitDetect /\ [][NextDetect]_vars

-----------------------------------------------------------------------------
(* Service reads: count, get_all, paginate *)

\* A step of building a query: the builder and the exception raised.
Built(builder, exc) == [builder |-> builder, raised |-> exc]

\* A query issued to the store.
Query(kind, builder) == [kind |-> kind, builder |-> builder]

\* The result of a service read.
Result(items, total, exc, queries) ==
    [items |-> items, total |-> total, raised |-> exc, queries |-> queries]

\* The builder after the applier's call: its conditions and the exception.
filters_applied(builder, r) == Built([builder EXCEPT !.filters = r.filters], r.raised)

\* DPService._apply_filter_to_query as a service implements it with its
\* FilterApplier: every field filter of the schema is applied.
apply_filter_to_query(builder, filter_data) ==
    filters_applied(builder,
                    apply_filters_from_schema(builder.filters, FCols, filter_data.schema))

\* DPService._sort_field_to_column_name: the column has the field's name.
sort_field_to_column_name(sort_field) == sort_field

\* DPService._get_model_column raises ValueError for a name that is not a
\* column of the model.
get_model_column_raises(field_name) == field_name \notin FCols

\* Variant: every clause is ascending, whatever the descriptor's direction.
sort_item_applied_ascending(builder, sort_item) ==
    IF get_model_column_raises(sort_field_to_column_name(sort_item.field))
    THEN Built(builder, "ValueError")
    ELSE Built(order_by_with_nulls(builder, sort_field_to_column_name(sort_item.field),
                                   FALSE, sort_item.nulls), "none")

\* The body of the loop of _apply_sort_to_query for one descriptor: the
\* column is resolved (ValueError when the model has none of that name) and
\* one ordering clause is added.
sort_item_applied(builder, sort_item) ==
    IF get_model_column_raises(sort_field_to_column_name(sort_item.field))
    THEN Built(builder, "ValueError")
    ELSE Built(order_by_with_nulls(builder, sort_field_to_column_name(sort_item.field),
                                   sort_item.direction = "desc", sort_item.nulls), "none")

\* DPService._apply_sort_to_query: the loop over the sort descriptors.
RECURSIVE apply_sort_to_query(_, _)
apply_sort_to_query(builder, sort_list) ==
    IF sort_list = <<>> THEN Built(builder, "none")
    ELSE LET r == sort_item_applied(builder, Head(sort_list))
         IN IF r.raised # "none" THEN r
            ELSE apply_sort_to_query(r.builder, Tail(sort_list))

\* Step 2 of _apply_base_filters: the sort descriptors of the filter.
sort_applied(b, filter_data) ==
    IF b.raised # "none" \/ filter_data.sort = <<>> THEN b
    ELSE apply_sort_to_query(b.builder, filter_data.sort)

\* Step 3 of _apply_base_filters: the limit of the filter, when it has one.
limit_applied(b, filter_data) ==
    IF b.raised # "none" \/ filter_data.limit = NoneV THEN b
    ELSE limit(b.builder, filter_data.limit)

\* Step 4 of _apply_base_filters: the offset of the filter, when it has one.
offset_applied(b, filter_data) ==
    IF b.raised # "none" \/ filter_data.offset = NoneV THEN b
    ELSE offset(b.builder, filter_data.offset)

\* DPService._apply_base_filters: field filters, sort, limit, offset.
apply_base_filters(builder, filter_data) ==
    offset_applied(
        limit_applied(
            sort_applied(apply_filter_to_query(builder, filter_data), filter_data),
            filter_data),
        filter_data)

\* QueryBuilder.find_all on the builder a service read has built, unless
\* building it raised.
fetched(s, b) ==
    IF b.raised # "none" THEN Result(<<>>, 0, b.raised, <<>>)
    ELSE Result(execute_typed_query(s, b.builder), 0, "none", <<Query("select", b.builder)>>)

\* DPService.get_all
get_all(s, filter_data) == fetched(s, apply_base_filters(EmptyBuilder, filter_data))

\* QueryBuilder.count on the builder a service read has built, unless
\* building it raised.
counted(s, b) ==
    IF b.raised # "none" THEN Result(<<>>, 0, b.raised, <<>>)
    ELSE Result(<<>>, execute_typed_count(s, b.builder), "none", <<Query("count", b.builder)>>)

\* DPService.count
service_count(s, filter_data) == counted(s, apply_filter_to_query(EmptyBuilder, filter_data))

\* What QueryBuilder.find_one returns when nothing interleaves with it: the
\* rows of find_all with limit_value = 1, the first of them or None (<<>>).
find_one_returns(s, builder) ==
    LET results == execute_typed_query(s, [builder EXCEPT !.limit_value = Val("int", 1)])
    IN IF results = <<>> THEN <<>> ELSE <<results[1]>>

\* QueryBuilder.find_one on the builder a service read has built, unless
\* building it raised.
first_fetched(s, b) ==
    IF b.raised # "none" THEN Result(<<>>, 0, b.raised, <<>>)
    ELSE Result(find_one_returns(s, b.builder), 0, "none",
                <<Query("select", [b.builder EXCEPT !.limit_value = Val("int", 1)])>>)

\* Variant: the sort, limit and offset of the filter are applied as in get_all.
get_first_base_filters(s, filter_data) ==
    first_fetched(s, apply_base_filters(EmptyBuilder, filter_data))

\* DPService.get_first
get_first(s, filter_data) ==
    first_fetched(s, apply_filter_to_query(EmptyBuilder, filter_data))

\* BaseModel.model_copy on the object at a reference of the heap (a sequence
\* of objects, a reference being an index): a new object with the same
\* attribute values, at the next reference.
model_copy(heap, ref) == Append(heap, heap[ref])

\* paginate's assignments of limit and offset to the object at a reference.
set_limit_offset(heap, ref, page, per_page) ==
    [heap EXCEPT ![ref].limit = Val("int", per_page),
                 ![ref].offset = Val("int", (page - 1) * per_page)]

\* Variant: limit and offset are assigned to the caller's object.
paginate_objects_in_place(filter_data, page, per_page) ==
    set_limit_offset(model_copy(<<filter_data>>, 1), 1, page, per_page)

\* The objects after paginate has prepared the page's filter: the caller's
\* filter at reference 1, paginated_filter = filter_data.model_copy() at
\* reference 2 with limit and offset assigned.
paginate_objects(filter_data, page, per_page) ==
    set_limit_offset(model_copy(<<filter_data>>, 1), 2, page, per_page)

\* The copy of the filter that paginate fetches with.
paginated_filter(filter_data, page, per_page) ==
    paginate_objects(filter_data, page, per_page)[2]

\* The caller's filter once the count c has run: the copy is made only when
\* the count returned.
filter_after_count(c, filter_data, page, per_page) ==
    IF c.raised # "none" THEN filter_data
    ELSE paginate_objects(filter_data, page, per_page)[1]

\* The caller's filter object after paginate.
filter_after_paginate(s, page, per_page, filter_data) ==
    IF page < 1 \/ per_page < 1 THEN filter_data
    ELSE filter_after_count(service_count(s, filter_data), filter_data, page, per_page)

\* Variant: the total is the number of items fetched for the page.
page_result_items_only(c, g) ==
    IF c.raised # "none" THEN c
    ELSE IF g.raised # "none" THEN Result(<<>>, 0, g.raised, c.queries)
    ELSE Result(g.items, Len(g.items), "none", c.queries \o g.queries)

\* What paginate returns from the count c and the fetch g; the fetch is not
\* reached when the count raised.
page_result(c, g) ==
    IF c.raised # "none" THEN c
    ELSE IF g.raised # "none" THEN Result(<<>>, 0, g.raised, c.queries)
    ELSE Result(g.items, c.total, "none", c.queries \o g.queries)

\* Variant: page and per_page are not checked before the count.
paginate_unchecked(s, page, per_page, filter_data) ==
    page_result(service_count(s, filter_data),
                get_all(s, paginated_filter(filter_data, page, per_page)))

\* DPService.paginate
paginate(s, page, per_page, filter_data) ==
    IF page < 1 \/ per_page < 1 THEN Result(<<>>, 0, "ValueError", <<>>)
    ELSE page_result(service_count(s, filter_data),
                     get_all(s, paginated_filter(filter_data, page, per_page)))

\* A service read call: the arguments and the result are recorded.
ReadCall(op, page, per_page, filter_data, r, after) ==
    /\ pOp' = op
    /\ pPage' = page
    /\ pPerPage' = per_page
    /\ pFilter' = filter_data
    /\ pItems' = r.items
    /\ pTotal' = r.total
    /\ pRaised' = r.raised
    /\ pQueries' = r.queries
    /\ pFilterAfter' = after
    /\ UNCHANGED <<updVars, fltVars, detVars, lateVars>>

\* The filter objects a caller passes.
Filters ==
    {Filter(schema, sort, lo[1], lo[2]) :
        schema \in PageSchemas(MaxPageOps), sort \in SortListsUpTo(MaxSorts), lo \in LimitOffsets}

DoCount ==
    /\ pOp = "init"
    /\ \E filter_data \in Filters :
          ReadCall("count", 1, 1, filter_data, service_count(store, filter_data), filter_data)

DoGetAll ==
    /\ pOp = "init"
    /\ \E filter_data \in Filters :
          ReadCall("get_all", 1, 1, filter_data, get_all(store, filter_data), filter_data)

DoGetFirst ==
    /\ pOp = "init"
    /\ \E filter_data \in Filters :
          ReadCall("get_first", 1, 1, filter_data, get_first(store, filter_data), filter_data)

DoPaginate ==
    /\ pOp = "init"
    /\ \E page \in 0..MaxPage : \E per_page \in 0..MaxPerPage : \E filter_data \in Filters :
          ReadCall("paginate", page, per_page, filter_data,
                   paginate(store, page, per_page, filter_data),
                   filter_after_paginate(store, page, per_page, filter_data))

InitPage == InitFilter

NextPage ==
    \/ DoCount
    \/ DoGetAll
    \/ DoGetFirst
    \/ DoPaginate

SpecPage == InitPage /\ [][NextPage]_vars

-----------------------------------------------------------------------------
(* delete_by_ids, step by step, next to another caller *)

\* DPService.delete_by_ids up to its first await: find_by_ids and the count.
DeleteByIdsCheck ==
    /\ delPc = "idle"
    /\ \E entity_ids \in IdListsUpTo(MaxIdList) :
          /\ delIds' = entity_ids
          /\ delCount' = existing_count(tbl, entity_ids)
    /\ delPc' = "checked"
    /\ delStart' = tbl
    /\ UNCHANGED <<tbl, delRemoved, delResult, delOther>>
    /\ UNCHANGED notDelVars

\* The rest of DPService.delete_by_ids: the DELETE when existing_count > 0,
\* and the return of existing_count.
DeleteByIdsDelete ==
    /\ delPc = "checked"
    /\ tbl' = IF delCount > 0 THEN repo_delete_by_ids(tbl, delIds) ELSE tbl
    /\ delRemoved' = Cardinality(DOMAIN tbl) - Cardinality(DOMAIN tbl')
    /\ delResult' = delCount
    /\ delPc' = "done"
    /\ UNCHANGED <<delIds, delStart, delCount, delOther>>
    /\ UNCHANGED notDelVars

\* Another caller, on a session of its own, deletes a row and commits while
\* delete_by_ids waits between its two statements.
OtherDelete ==
    /\ delPc = "checked"
    /\ delOther < MaxOther
    /\ \E i \in DOMAIN tbl : tbl' = [j \in DOMAIN tbl \ {i} |-> tbl[j]]
    /\ delOther' = delOther + 1
    /\ UNCHANGED <<delPc, delIds, delStart, delCount, delRemoved, delResult>>
    /\ UNCHANGED notDelVars

\* Another caller creates a row (version 2) and commits in the same window.
OtherCreate ==
    /\ delPc = "checked"
    /\ delOther < MaxOther
    /\ \E i \in Ids \ DOMAIN tbl : tbl' = [j \in DOMAIN tbl \cup {i} |-> IF j = i THEN 2 ELSE tbl[j]]
    /\ delOther' = delOther + 1
    /\ UNCHANGED <<delPc, delIds, delStart, delCount, delRemoved, delResult>>
    /\ UNCHANGED notDelVars

InitDelete ==
    /\ IdleEarly
    /\ tbl \in Tables
    /\ delPc = "idle"
    /\ delIds = <<>>
    /\ delStart = tbl
    /\ delCount = 0
    /\ delRemoved = 0
    /\ delResult = 0
    /\ delOther = 0
    /\ IdleSort
    /\ IdleFind
    /\ IdleDump
    /\ IdleTxn
    /\ IdleKey

NextDelete ==
    \/ DeleteByIdsCheck
    \/ DeleteByIdsDelete
    \/ OtherDelete
    \/ OtherCreate

SpecDelete == InitDelete /\ [][NextDelete]_vars

-----------------------------------------------------------------------------
(* Applying a sort list to a builder *)

\* The result of _apply_sort_to_query is recorded.
SortApplied(sort_list, r) ==
    /\ sOp' = "apply_sort_to_query"
    /\ sPrev' = sBuilder.order_by_clauses
    /\ sList' = sort_list
    /\ sBuilder' = r.builder
    /\ sRaised' = r.raised
    /\ UNCHANGED sRows
    /\ UNCHANGED notSortVars

\* QueryBuilder.order_by called by the owner of the builder before the
\* service applies a sort list.
DoOrderBy ==
    /\ sOp = "init"
    /\ \E column \in SortFields \cap FCols : \E desc \in BOOLEAN :
          sBuilder' = order_by(sBuilder, column, desc)
    /\ sOp' = "order_by"
    /\ UNCHANGED <<sPrev, sList, sRaised, sRows>>
    /\ UNCHANGED notSortVars

\* DPService._apply_sort_to_query with a sort list.
DoApplySort ==
    /\ sOp \in {"init", "order_by"}
    /\ \E sort_list \in SortListsUpTo(MaxSortList) :
          SortApplied(sort_list, apply_sort_to_query(sBuilder, sort_list))

\* QueryBuilder.find_all on the sorted builder.
DoSortedFindAll ==
    /\ sOp = "apply_sort_to_query"
    /\ sRaised = "none"
    /\ sRows' = execute_typed_query(store, sBuilder)
    /\ sOp' = "find_all"
    /\ UNCHANGED <<sBuilder, sPrev, sList, sRaised>>
    /\ UNCHANGED notSortVars

InitSort == IdleEarly /\ IdleDelete /\ IdleSort /\ IdleFind /\ IdleDump /\ IdleTxn /\ IdleKey

NextSort ==
    \/ DoOrderBy
    \/ DoApplySort
    \/ DoSortedFindAll

SpecSort == InitSort /\ [][NextSort]_vars

-----------------------------------------------------------------------------
(* find_one and find_all on a shared builder, step by step *)

\* The builders the calls share: with or without a limit, an offset, a
\* condition and an ordering clause.
SharedBuilders ==
    {[filters |-> fs, limit_value |-> l, offset_value |-> o, order_by_clauses |-> cs] :
        fs \in {<<>>, <<Pred("eq", "name", Val("str", 1), <<>>)>>,
                      <<Pred("eq", "name", Val("str", 2), <<>>),
                        Pred("eq", "age", Val("int", 1), <<>>)>>},
        l \in {NoneV, Val("int", 0), Val("int", 2)},
        o \in {NoneV, Val("int", 1)},
        cs \in {<<>>, <<Clause("name", TRUE, "none")>>}}

\* Another call waits for the store.
OthersWaiting(t) == \E u \in DOMAIN qTask \ {t} : qTask[u].pc = "waiting"

\* The first of the rows a query returned, None (<<>>) when there is none.
FirstOf(results) == IF results = <<>> THEN <<>> ELSE <<results[1]>>

\* Variant: the limit is left as find_one set it.
restore_limit_never(builder, original_limit) == builder

\* The finally block of QueryBuilder.find_one.
restore_limit(builder, original_limit) == [builder EXCEPT !.limit_value = original_limit]

\* QueryBuilder.find_one up to its await: the limit is saved and set to 1,
\* and execute_typed_query builds the statement from the builder.
FindOneStart(t) ==
    /\ qTask[t].pc = "idle"
    /\ qShared' = [qShared EXCEPT !.limit_value = Val("int", 1)]
    /\ qTask' = [qTask EXCEPT ![t] = [NoTask EXCEPT !.op = "find_one", !.pc = "waiting",
                                                    !.original_limit = qShared.limit_value,
                                                    !.stmt = qShared']]
    /\ qOverlap' = (qOverlap \/ OthersWaiting(t))
    /\ UNCHANGED qStart
    /\ UNCHANGED notFindVars

\* QueryBuilder.find_one after its await: the store answers or raises; the
\* first row or None is returned and the finally block restores the limit.
FindOneFinish(t) ==
    /\ qTask[t].pc = "waiting"
    /\ qTask[t].op = "find_one"
    /\ \E exc \in {"none", "DBAPIError"} :
          qTask' = [qTask EXCEPT ![t].pc = "done",
                                 ![t].raised = exc,
                                 ![t].rows = IF exc = "none"
                                             THEN FirstOf(execute_typed_query(store, qTask[t].stmt))
                                             ELSE <<>>]
    /\ qShared' = restore_limit(qShared, qTask[t].original_limit)
    /\ UNCHANGED <<qStart, qOverlap>>
    /\ UNCHANGED notFindVars

\* QueryBuilder.find_all up to its await: execute_typed_query builds the
\* statement from the builder.
FindAllStart(t) ==
    /\ qTask[t].pc = "idle"
    /\ qTask' = [qTask EXCEPT ![t] = [NoTask EXCEPT !.op = "find_all", !.pc = "waiting",
                                                    !.stmt = qShared]]
    /\ qOverlap' = (qOverlap \/ OthersWaiting(t))
    /\ UNCHANGED <<qShared, qStart>>
    /\ UNCHANGED notFindVars

\* QueryBuilder.find_all after its await.
FindAllFinish(t) ==
    /\ qTask[t].pc = "waiting"
    /\ qTask[t].op = "find_all"
    /\ \E exc \in {"none", "DBAPIError"} :
          qTask' = [qTask EXCEPT ![t].pc = "done",
                                 ![t].raised = exc,
                                 ![t].rows = IF exc = "none"
                                             THEN execute_typed_query(store, qTask[t].stmt)
                                             ELSE <<>>]
    /\ UNCHANGED <<qShared, qStart, qOverlap>>
    /\ UNCHANGED notFindVars

InitFind ==
    /\ IdleEarly
    /\ IdleDelete
    /\ IdleSort
    /\ IdleDump
    /\ IdleTxn
    /\ IdleKey
    /\ qShared \in SharedBuilders
    /\ qStart = qShared
    /\ qTask = [t \in 1..MaxTasks |-> NoTask]
    /\ qOverlap = FALSE

NextFind ==
    \E t \in 1..MaxTasks :
        \/ FindOneStart(t)
        \/ FindOneFinish(t)
        \/ FindAllStart(t)
        \/ FindAllFinish(t)

SpecFind == InitFind /\ [][NextFind]_vars

-----------------------------------------------------------------------------
(* split_dump: a dump file split into one file per table *)

TableNames == {"a", "b"}

\* The lines the regular expressions tell apart: a service SET line, a
\* DROP TABLE IF EXISTS and a CREATE TABLE with their table name, any other.
Line(kind, name) == [kind |-> kind, name |-> name]

LineKinds ==
    {Line("set", "none"), Line("other", "none")}
        \cup {Line(k, n) : k \in {"drop", "create"}, n \in TableNames}

RECURSIVE DumpsUpTo(_)
DumpsUpTo(n) ==
    IF n = 0 THEN {<<>>}
    ELSE DumpsUpTo(n - 1)
            \cup {Append(d, l) : d \in {e \in DumpsUpTo(n - 1) : Len(e) = n - 1}, l \in LineKinds}

\* fp.write(line) on a table file.
written(files, fp, lines) == [files EXCEPT ![fp].lines = @ \o lines]

\* dict.pop(table_name) of pending_drop_lines.
popped(d, table_name) == [n \in DOMAIN d \ {table_name} |-> d[n]]

\* The buffered DROP lines of a table, none when the table has no entry.
drops_of(d, table_name) == IF table_name \in DOMAIN d THEN d[table_name] ELSE <<>>

\* What open_table_file writes to the file it opens: the buffered SET
\* lines, then the DROP lines buffered for the table.
open_table_file_lines(pending_set, pending_drop, table_name) ==
    pending_set \o drops_of(pending_drop, table_name)

\* The loop has a line to read.
Reading(kind) ==
    /\ dPos <= Len(dump)
    /\ dump[dPos].kind = kind

\* A SET line: written to the open table file, buffered when none is open.
ReadSet ==
    /\ Reading("set")
    /\ IF current_fp # 0
       THEN /\ table_files' = written(table_files, current_fp, <<dPos>>)
            /\ UNCHANGED <<pending_set_lines, dBuffered>>
       ELSE /\ pending_set_lines' = Append(pending_set_lines, dPos)
            /\ dBuffered' = dBuffered \cup {dPos}
            /\ UNCHANGED table_files
    /\ dPos' = dPos + 1
    /\ UNCHANGED <<dump, current_table, current_fp, table_index, pending_drop_lines,
                   globals_fp, extras_fp>>
    /\ UNCHANGED notDumpVars

\* A DROP TABLE line: buffered for its table.
ReadDrop ==
    /\ Reading("drop")
    /\ LET tname == dump[dPos].name
       IN  pending_drop_lines' =
               [n \in DOMAIN pending_drop_lines \cup {tname} |->
                   IF n = tname THEN Append(drops_of(pending_drop_lines, tname), dPos)
                   ELSE pending_drop_lines[n]]
    /\ dPos' = dPos + 1
    /\ UNCHANGED <<dump, current_table, current_fp, table_index, pending_set_lines,
                   globals_fp, extras_fp, table_files, dBuffered>>
    /\ UNCHANGED notDumpVars

\* A CREATE TABLE line: the open table file is closed, the next one is
\* opened by open_table_file, and the line is written to it.
ReadCreate ==
    /\ Reading("create")
    /\ LET tname == dump[dPos].name
       IN  /\ table_index' = table_index + 1
           /\ current_fp' = table_index + 1
           /\ current_table' = tname
           /\ table_files' =
                  Append(table_files,
                         [name |-> tname,
                          lines |-> open_table_file_lines(pending_set_lines,
                                                          pending_drop_lines, tname)
                                    \o <<dPos>>])
           /\ pending_drop_lines' = popped(pending_drop_lines, tname)
    /\ dPos' = dPos + 1
    /\ UNCHANGED <<dump, pending_set_lines, globals_fp, extras_fp, dBuffered>>
    /\ UNCHANGED notDumpVars

\* Any other line while a table is being written goes to its file.
ReadTableLine ==
    /\ Reading("other")
    /\ current_table # "none"
    /\ table_files' = written(table_files, current_fp, <<dPos>>)
    /\ dPos' = dPos + 1
    /\ UNCHANGED <<dump, current_table, current_fp, table_index, pending_set_lines,
                   pending_drop_lines, globals_fp, extras_fp, dBuffered>>
    /\ UNCHANGED notDumpVars

\* Any other line before the first table goes to the globals file.
ReadGlobalLine ==
    /\ Reading("other")
    /\ current_table = "none"
    /\ globals_fp' = Append(globals_fp, dPos)
    /\ dPos' = dPos + 1
    /\ UNCHANGED <<dump, current_table, current_fp, table_index, pending_set_lines,
                   pending_drop_lines, extras_fp, table_files, dBuffered>>
    /\ UNCHANGED notDumpVars

\* The DROP lines left in the buffer, table by table, each group after a
\* comment line.
RECURSIVE orphan_drops(_)
orphan_drops(d) ==
    IF DOMAIN d = {} THEN <<>>
    ELSE LET tname == CHOOSE n \in DOMAIN d : TRUE
         IN  <<0>> \o d[tname] \o orphan_drops(popped(d, tname))

\* After the last line: the open table file is closed and what is left in
\* the two buffers is written to the extras file.
Finalize ==
    /\ dPos = Len(dump) + 1
    /\ current_fp' = 0
    /\ current_table' = "none"
    /\ extras_fp' = IF pending_set_lines # <<>> \/ DOMAIN pending_drop_lines # {}
                    THEN <<0>> \o pending_set_lines \o orphan_drops(pending_drop_lines)
                    ELSE extras_fp
    /\ dPos' = dPos + 1
    /\ UNCHANGED <<dump, table_index, pending_set_lines, pending_drop_lines, globals_fp,
                   table_files, dBuffered>>
    /\ UNCHANGED notDumpVars

InitDump ==
    /\ IdleEarly
    /\ IdleDelete
    /\ IdleSort
    /\ IdleFind
    /\ IdleTxn
    /\ IdleKey
    /\ \E d \in DumpsUpTo(MaxLines) : DumpStart(d)

NextDump ==
    \/ ReadSet
    \/ ReadDrop
    \/ ReadCreate
    \/ ReadTableLine
    \/ ReadGlobalLine
    \/ Finalize

SpecDump == InitDump /\ [][NextDump]_vars

-----------------------------------------------------------------------------
(* Mutations, save_changes and rollback on one session *)

\* The tables of this part: id -> version of the row, 1 as created and 2
\* once updated.
VersionTables == UNION {[S -> {1, 2}] : S \in SUBSET Ids}

\* The session writes the entities added to the transaction (flush; it
\* does so before it executes a statement and before it commits).
flushed(sess) ==
    [sess EXCEPT !.rows = [i \in DOMAIN sess.rows \cup DOMAIN sess.new |->
                              IF i \in DOMAIN sess.new THEN sess.new[i] ELSE sess.rows[i]],
                 !.new = [i \in {} |-> 1]]

\* BaseDBRepo.create: session.add(entity).
repo_create(sess, entity_id) ==
    [sess EXCEPT !.new = [i \in DOMAIN sess.new \cup {entity_id} |->
                             IF i = entity_id THEN 1 ELSE sess.new[i]]]

\* BaseDBRepo.create_bulk: session.add_all(entities).
repo_create_bulk(sess, entity_ids) ==
    [sess EXCEPT !.new = [i \in DOMAIN sess.new \cup entity_ids |->
                             IF i \in entity_ids THEN 1 ELSE sess.new[i]]]

\* BaseDBRepo.update_by_ids: session.execute(UPDATE ... WHERE id IN ids).
txn_update_by_ids(sess, entity_ids) ==
    [flushed(sess) EXCEPT !.rows = [i \in DOMAIN @ |-> IF i \in entity_ids THEN 2 ELSE @[i]]]

\* BaseDBRepo.update_by_id: session.execute(UPDATE ... WHERE id = entity_id).
txn_update_by_id(sess, entity_id) ==
    [flushed(sess) EXCEPT !.rows = [i \in DOMAIN @ |-> IF i = entity_id THEN 2 ELSE @[i]]]

\* BaseDBRepo.delete_by_ids: session.execute(DELETE ... WHERE id IN ids).
txn_delete_by_ids(sess, entity_ids) ==
    [flushed(sess) EXCEPT !.rows = [i \in DOMAIN @ \ entity_ids |-> @[i]]]

\* Variant: the DELETE is committed at once.
txn_delete_by_id_committed(sess, entity_id) ==
    [flushed(sess) EXCEPT !.rows = [i \in DOMAIN @ \ {entity_id} |-> @[i]],
                          !.committed = [i \in DOMAIN @ \ {entity_id} |-> @[i]]]

\* BaseDBRepo.delete_by_id: session.execute(DELETE ... WHERE id = entity_id).
txn_delete_by_id(sess, entity_id) ==
    [flushed(sess) EXCEPT !.rows = [i \in DOMAIN @ \ {entity_id} |-> @[i]]]

\* BaseDBRepo.save_changes: session.commit().
save_changes(sess) == [flushed(sess) EXCEPT !.committed = flushed(sess).rows]

\* BaseDBRepo.rollback: session.rollback().
rollback(sess) == Begun(sess.committed)

\* An operation on the session.
TxnCall(op, after) ==
    /\ txOp' = op
    /\ txPrev' = session.committed
    /\ session' = after
    /\ UNCHANGED notTxnVars

\* The ids no row and no added entity has.
FreshIds == Ids \ (DOMAIN session.rows \cup DOMAIN session.new)

\* create of the service and of the repository, with an entity of a new id.
TxnCreate == \E i \in FreshIds : TxnCall("create", repo_create(session, i))

\* create_bulk of the service and of the repository.
TxnCreateBulk ==
    \E S \in SUBSET FreshIds : TxnCall("create_bulk", repo_create_bulk(session, S))

\* update_by_id and update_by_id_with_fields of the service, update_by_id
\* of the repository.
TxnUpdateById == \E i \in Ids : TxnCall("update_by_id", txn_update_by_id(session, i))

\* update_by_ids and update_by_ids_with_fields of the service,
\* update_by_ids of the repository.
TxnUpdateByIds ==
    \E l \in IdListsUpTo(MaxIdList) :
        TxnCall("update_by_ids", txn_update_by_ids(session, Elems(l)))

\* delete_by_id of the service and of the repository.
TxnDeleteById == \E i \in Ids : TxnCall("delete_by_id", txn_delete_by_id(session, i))

\* delete_by_ids of the service and of the repository.
TxnDeleteByIds ==
    \E l \in IdListsUpTo(MaxIdList) :
        TxnCall("delete_by_ids", txn_delete_by_ids(session, Elems(l)))

TxnSaveChanges == TxnCall("save_changes", save_changes(session))

TxnRollback == TxnCall("rollback", rollback(session))

InitTxn ==
    /\ IdleEarly
    /\ IdleDelete
    /\ IdleSort
    /\ IdleFind
    /\ IdleDump
    /\ IdleKey
    /\ \E t \in VersionTables : session = Begun(t)
    /\ txOp = "none"
    /\ txPrev = session.committed

NextTxn ==
    \/ TxnCreate
    \/ TxnCreateBulk
    \/ TxnUpdateById
    \/ TxnUpdateByIds
    \/ TxnDeleteById
    \/ TxnDeleteByIds
    \/ TxnSaveChanges
    \/ TxnRollback

SpecTxn == InitTxn /\ [][NextTxn]_vars

-----------------------------------------------------------------------------
(* Repository operations and the type of their keys *)

\* The key type the repository was constructed with (self.key_type).
key_type == "int"

\* The keys a caller passes: of the key type, or a string.
KeyTypes == {"int", "str"}

Keys == {Val(ty, i) : ty \in KeyTypes, i \in Ids}

\* Lists of keys, all of one type.
KeyLists == {[k \in DOMAIN l |-> Val(ty, l[k])] : ty \in KeyTypes, l \in IdListsUpTo(MaxIdList)}

\* What the storage engine does with a bound value that is not of the
\* column's type: it converts it, it compares it as unequal to every id,
\* or it refuses the statement.
Engines == {"converts", "unequal", "refuses"}

\* The rows the WHERE clause of id_eq / id_in selects.
selected(t, keys, engine) ==
    {i \in DOMAIN t :
        \E k \in DOMAIN keys :
            /\ keys[k].v = i
            /\ (keys[k].ty = key_type \/ engine = "converts")}

\* The engine refuses the statement.
refused(keys, engine) ==
    /\ engine = "refuses"
    /\ \E k \in DOMAIN keys : keys[k].ty # key_type

\* A repository operation: it builds its statement from the keys as they
\* are and sends it to the session.
KeyCall(op, keys, engine, statement, found, after) ==
    /\ kOp' = op
    /\ kKeys' = keys
    /\ kPrev' = kTable
    /\ kStatements' = <<statement>>
    /\ kRaised' = IF refused(keys, engine) THEN "DBAPIError" ELSE "none"
    /\ kFound' = IF refused(keys, engine) THEN {} ELSE found
    /\ kTable' = IF refused(keys, engine) THEN kTable ELSE after
    /\ UNCHANGED notKeyVars

KeyFindById ==
    \E key \in Keys, engine \in Engines :
        KeyCall("find_by_id", <<key>>, engine, "select",
                selected(kTable, <<key>>, engine), kTable)

KeyFindByIds ==
    \E keys \in KeyLists, engine \in Engines :
        KeyCall("find_by_ids", keys, engine, "select",
                selected(kTable, keys, engine), kTable)

KeyExistsById ==
    \E key \in Keys, engine \in Engines :
        KeyCall("exists_by_id", <<key>>, engine, "select",
                selected(kTable, <<key>>, engine), kTable)

KeyUpdateById ==
    \E key \in Keys, engine \in Engines :
        KeyCall("update_by_id", <<key>>, engine, "update", {},
                [i \in DOMAIN kTable |->
                    IF i \in selected(kTable, <<key>>, engine) THEN 2 ELSE kTable[i]])

KeyUpdateByIds ==
    \E keys \in KeyLists, engine \in Engines :
        KeyCall("update_by_ids", keys, engine, "update", {},
                [i \in DOMAIN kTable |->
                    IF i \in selected(kTable, keys, engine) THEN 2 ELSE kTable[i]])

KeyDeleteById ==
    \E key \in Keys, engine \in Engines :
        KeyCall("delete_by_id", <<key>>, engine, "delete", {},
                [i \in DOMAIN kTable \ selected(kTable, <<key>>, engine) |-> kTable[i]])

KeyDeleteByIds ==
    \E keys \in KeyLists, engine \in Engines :
        KeyCall("delete_by_ids", keys, engine, "delete", {},
                [i \in DOMAIN kTable \ selected(kTable, keys, engine) |-> kTable[i]])

InitKey ==
    /\ IdleEarly
    /\ IdleDelete
    /\ IdleSort
    /\ IdleFind
    /\ IdleDump
    /\ IdleTxn
    /\ kTable \in VersionTables
    /\ kPrev = kTable
    /\ kOp = "none"
    /\ kKeys = <<>>
    /\ kStatements = <<>>
    /\ kRaised = "none"
    /\ kFound = {}

NextKey ==
    \/ KeyFindById
    \/ KeyFindByIds
    \/ KeyExistsById
    \/ KeyUpdateById
    \/ KeyUpdateByIds
    \/ KeyDeleteById
    \/ KeyDeleteByIds

SpecKey == InitKey /\ [][NextKey]_vars

-----------------------------------------------------------------------------
(* Claims about the update semantics, checked under SpecUpdate *)

\* The last call was op on an id that was stored when it started.
UpdatedExisting(op) == opName = op /\ argId \in DOMAIN prev

\* The value an update must write for a payload field that is named or set.
PayloadHolds(x) == IF x \in StrVals THEN x ELSE NoneV

\* Every row but the one of the last call is as before, and no row came or went.
OthersUnchanged ==
    /\ DOMAIN store = DOMAIN prev
    /\ \A i \in DOMAIN prev : i # argId => store[i] = prev[i]

\* C1: after update_by_id with include_none = false on an existing id, every
\* payload field set to the null marker is null in the stored entity and in
\* the entity returned.
C1_MarkerSetsNull ==
    (UpdatedExisting("update_by_id") /\ ~argFlag) =>
        \A f \in UpdFields :
            argPayload[f] = NULL =>
                /\ store[argId][f] = NoneV
                /\ resFound
                /\ resRow[f] = NoneV

C1_Witness ==
    /\ UpdatedExisting("update_by_id")
    /\ ~argFlag
    /\ \E f \in UpdFields :
          /\ argPayload[f] = NULL
          /\ prev[argId][f] \in StrVals
          /\ store[argId][f] = NoneV

\* C2: after update_by_id on an existing id, every field given an explicit
\* value has that value, every field absent from the payload keeps its prior
\* value, and no entity with another id is changed.
C2_ValuesSetOthersKept ==
    UpdatedExisting("update_by_id") =>
        /\ \A f \in UpdFields :
              /\ argPayload[f] \in StrVals =>
                    (store[argId][f] = argPayload[f] /\ resRow[f] = argPayload[f])
              /\ argPayload[f] = Unset => store[argId][f] = prev[argId][f]
        /\ resFound
        /\ OthersUnchanged

C2_Witness ==
    /\ UpdatedExisting("update_by_id")
    /\ Cardinality(DOMAIN prev) > 1
    /\ \E f, g \in UpdFields :
          /\ argPayload[f] \in StrVals
          /\ prev[argId][f] \in StrVals
          /\ prev[argId][f] # argPayload[f]
          /\ store[argId][f] = argPayload[f]
          /\ argPayload[g] = Unset
          /\ prev[argId][g] \in StrVals
    /\ \E i \in DOMAIN prev : i # argId /\ prev[i] # prev[argId]

C4_ExactlyNamedFields ==
    UpdatedExisting("update_by_id_with_fields") =>
        /\ \A f \in UpdFields :
              IF f \in argFields
              THEN store[argId][f] = PayloadHolds(argPayload[f])
              ELSE store[argId][f] = prev[argId][f]
        /\ resFound
        /\ resRow = store[argId]
        /\ OthersUnchanged

C4_Witness ==
    /\ UpdatedExisting("update_by_id_with_fields")
    /\ \E f, g \in UpdFields :
          /\ f \in argFields
          /\ argPayload[f] = Unset
          /\ prev[argId][f] \in StrVals
          /\ store[argId][f] = NoneV
          /\ g \notin argFields
          /\ argPayload[g] \in StrVals
          /\ prev[argId][g] # argPayload[g]
          /\ store[argId][g] = prev[argId][g]

\* C5: update_by_id and update_by_id_with_fields on an id that is not stored
\* return None without raising, issue no repository update and leave the
\* table unchanged.
C5_MissingIdNotFound ==
    (opName \in {"update_by_id", "update_by_id_with_fields"} /\ argId \notin DOMAIN prev) =>
        /\ ~resFound
        /\ raised = "none"
        /\ issued = <<>>
        /\ store = prev

C5_Witness ==
    /\ opName \in {"update_by_id", "update_by_id_with_fields"}
    /\ argId \notin DOMAIN prev
    /\ DOMAIN prev # {}
    /\ \E f \in UpdFields : argPayload[f] \in StrVals
    /\ ~resFound

-----------------------------------------------------------------------------
(* Claims about filtering, checked under SpecFilter *)

TypedApply ==
    {"apply_string_filter", "apply_number_filter", "apply_datetime_filter",
     "apply_boolean_filter"}

\* The condition IN of the empty list on a column.
EmptyIn(column) == Pred("in", column, NoneV, <<>>)

\* The builder holds a condition IN of the empty list.
HoldsEmptyIn == \E n \in 1..Len(qb.filters) : qb.filters[n].op = "in" /\ qb.filters[n].vs = <<>>

\* The conditions the last builder call appended.
Added == SubSeq(qb.filters, Len(fPrev) + 1, Len(qb.filters))

\* A schema without one of its fields.
Without(schema, f) == [g \in DOMAIN schema \ {f} |-> schema[g]]

\* C6: for each filter kind, a schema whose only active field holds a filter
\* with eq = v (v not null), applied through apply_filters_from_schema,
\* adds exactly one condition, column = v, and nothing else.
C6_EqAddsOnePredicate ==
    \A f \in FCols :
        (/\ fOp = "apply_filters_from_schema"
         /\ get_active_filters(fSchema) = <<f>>
         /\ DOMAIN fSchema[f] = {"eq"})
        => /\ fRaised = "none"
           /\ qb.filters = Append(fPrev, Pred("eq", f, fSchema[f]["eq"], <<>>))

\* C7: a schema in which some field's filter has in_ set to the empty
\* sequence, applied through apply_filters_from_schema, gives a query that
\* matches no row.
C7_SchemaEmptyInMatchesNothing ==
    (/\ fOp = "apply_filters_from_schema"
     /\ fRaised = "none"
     /\ \E f \in DOMAIN fSchema :
            "in_" \in DOMAIN fSchema[f] /\ fSchema[f]["in_"] = <<>>)
    => /\ execute_typed_query(store, qb) = <<>>
       /\ execute_typed_count(store, qb) = 0

\* C8: where_in(column, []) and every typed apply whose in_ is the empty
\* sequence append exactly one condition IN of the empty list; a builder
\* holding it matches no row, so find_all returns no row and count returns 0
\* whatever its other conditions are.
C8_EmptyInAlwaysFalse ==
    /\ (fOp = "where_in" /\ fVals = <<>>) => qb.filters = Append(fPrev, EmptyIn(fCol))
    /\ (fOp \in TypedApply /\ IsSet(fInst, "in_") /\ fInst.d["in_"] = <<>>)
       => /\ fRaised = "none"
          /\ SubSeq(qb.filters, 1, Len(fPrev)) = fPrev
          /\ Cardinality({n \in 1..Len(Added) : Added[n].op = "in"}) = 1
          /\ \E n \in 1..Len(Added) : Added[n] = EmptyIn(fCol)
    /\ HoldsEmptyIn
       => /\ execute_typed_query(store, qb) = <<>>
          /\ execute_typed_count(store, qb) = 0
          /\ fOp = "find_all" => fRows = <<>>
          /\ fOp = "count" => fCount = 0

\* where_eq matching a row, then where_in of the empty list, then find_all.
C8_Witness ==
    /\ fOp = "find_all"
    /\ Len(qb.filters) = 2
    /\ qb.filters[1].op = "eq"
    /\ execute_typed_query(store, Builder(<<qb.filters[1]>>)) # <<>>
    /\ qb.filters[2].op = "in"
    /\ qb.filters[2].vs = <<>>
    /\ fRows = <<>>

\* C9: where_not_in(column, []) leaves the conditions unchanged, and a field
\* whose only operator is not_in of the empty sequence gives the query the
\* rows it gives with that field absent, applied directly or through
\* apply_filters_from_schema.
C9_EmptyNotInAddsNothing ==
    /\ (fOp = "where_not_in" /\ fVals = <<>>) => qb.filters = fPrev
    /\ (fOp \in TypedApply /\ DOMAIN fInst.d = {"not_in"} /\ fInst.d["not_in"] = <<>>)
       => /\ qb.filters = fPrev
          /\ execute_typed_query(store, qb) = execute_typed_query(store, Builder(fPrev))
    /\ \A f \in DOMAIN fSchema :
          (/\ fOp = "apply_filters_from_schema"
           /\ DOMAIN fSchema[f] = {"not_in"}
           /\ fSchema[f]["not_in"] = <<>>)
          => LET r == apply_filters_from_schema(fPrev, FCols, Without(fSchema, f))
             IN /\ fRaised = r.raised
                /\ qb.filters = r.filters
                /\ execute_typed_query(store, qb) = execute_typed_query(store, Builder(r.filters))

\* A schema with not_in of the empty sequence on one field and a condition
\* from another field.
C9_Witness ==
    /\ fOp = "apply_filters_from_schema"
    /\ fRaised = "none"
    /\ Len(qb.filters) = 1
    /\ \E f \in DOMAIN fSchema : \E g \in DOMAIN fSchema \ {f} :
          /\ DOMAIN fSchema[f] = {"not_in"}
          /\ fSchema[f]["not_in"] = <<>>
          /\ DOMAIN fSchema[g] = {"eq"}
          /\ qb.filters[1].col = g

\* C10: a schema whose fields are all absent or hold a filter without
\* operators adds no condition, as does such a filter applied directly;
\* count on a query without conditions is the number of stored rows.
C10_AllNoneAddsNothing ==
    /\ (fOp = "apply_filters_from_schema" /\ \A f \in DOMAIN fSchema : fSchema[f] = EmptyDict)
       => /\ fRaised = "none"
          /\ qb.filters = fPrev
          /\ fPrev = <<>> => execute_typed_count(store, qb) = Cardinality(DOMAIN store)
    /\ (fOp \in TypedApply /\ fInst.d = EmptyDict) => qb.filters = fPrev
    /\ (fOp = "count" /\ qb.filters = <<>>) => fCount = Cardinality(DOMAIN store)

\* A schema with a field holding a filter without operators, applied to a
\* fresh query.
C10_Witness ==
    /\ fOp = "apply_filters_from_schema"
    /\ \E f \in DOMAIN fSchema : fSchema[f] = EmptyDict
    /\ \A f \in DOMAIN fSchema : fSchema[f] = EmptyDict
    /\ fPrev = <<>>
    /\ qb.filters = <<>>
    /\ execute_typed_count(store, qb) = Cardinality(DOMAIN store)

-----------------------------------------------------------------------------
(* Claims about the detection, checked under SpecDetect *)

\* The payload has a key of the group.
HasKey(group) == DOMAIN dPayload \cap group # {}

\* The first key of a sequence that the payload holds with a value that is
\* not the empty list; "none" when there is none.
FirstKey(ks) ==
    LET held == SelectSeq(ks, LAMBDA k : k \in DOMAIN dPayload /\ dPayload[k] # <<>>)
    IN IF held = <<>> THEN "none" ELSE held[1]

\* C11: the detection looks at the key groups in the order string-only,
\* ordering/range, eq/ne, in/not_in, and the first group that matches
\* chooses the kind; a payload with a string-only key is a StringFilter
\* whatever else it holds.
C11_DetectionPriority ==
    dOp = "detect" =>
        LET eqKey == FirstKey(<<"eq", "ne">>)
            inKey == FirstKey(<<"in_", "not_in">>)
        IN IF HasKey(STRING_OPS) THEN dKind = "StringFilter"
           ELSE IF HasKey(COMPARISON_OPS)
                THEN dKind = detect_comparison_filter_type(dPayload)
                     /\ dKind \in {"NumberFilter", "DateTimeFilter"}
           ELSE IF eqKey # "none" THEN dKind = detect_filter_type_by_value(dPayload[eqKey])
           ELSE IF inKey # "none" THEN dKind = detect_filter_type_by_value(dPayload[inKey][1])
           ELSE dKind = "None"

\* A payload with a string-only key next to an ordering key with a datetime
\* value.
C11_Witness ==
    /\ dOp = "detect"
    /\ DOMAIN dPayload = {"like", "gt"}
    /\ dPayload["gt"].ty = "datetime"
    /\ dKind = "StringFilter"

\* A date/time value: a datetime, a date or a time of day.
TemporalValue(x) == x.ty \in {"datetime", "date", "time"}

\* The value of the first ordering/range operator the payload holds (the
\* first bound for between).
FirstOrderingValue ==
    LET k == FirstKey(<<"gt", "gte", "lt", "lte", "between">>)
    IN IF k = "between" THEN dPayload[k][1] ELSE dPayload[k]

\* C12: for a payload without string-only key and with an ordering/range
\* key, the detection returns the temporal kind exactly when the first
\* operator value (for between its first bound) is a date/time value, and
\* the number kind otherwise.
C12_TemporalByFirstValue ==
    (dOp = "detect" /\ ~HasKey(STRING_OPS) /\ HasKey(COMPARISON_OPS))
    => dKind = IF TemporalValue(FirstOrderingValue) THEN "DateTimeFilter" ELSE "NumberFilter"

\* The kind the shape of a value stands for: boolean, string, numeric,
\* temporal.
ShapeKind(x) ==
    CASE x.ty = "bool" -> "BooleanFilter"
      [] x.ty = "str" -> "StringFilter"
      [] x.ty \in {"int", "float", "decimal"} -> "NumberFilter"
      [] TemporalValue(x) -> "DateTimeFilter"
      [] OTHER -> "None"

\* C13: for a payload without string-only and ordering/range key, the kind
\* is the shape of the value of eq, else of ne, else of the first element of
\* a non-empty in_, else of not_in; a boolean is never a NumberFilter.
C13_KindByValueShape ==
    (dOp = "detect" /\ ~HasKey(STRING_OPS) /\ ~HasKey(COMPARISON_OPS))
    => LET eqKey == FirstKey(<<"eq", "ne">>)
           inKey == FirstKey(<<"in_", "not_in">>)
       IN /\ eqKey # "none" => dKind = ShapeKind(dPayload[eqKey])
          /\ (eqKey = "none" /\ inKey # "none") => dKind = ShapeKind(dPayload[inKey][1])
          /\ (eqKey # "none" /\ dPayload[eqKey].ty = "bool") => dKind # "NumberFilter"

-----------------------------------------------------------------------------
(* Claims about applying a schema, checked under SpecFilter *)

\* The payload of a field holds nothing but is_null / is_not_null.
NullnessOnly(d) == DOMAIN d \subseteq {"is_null", "is_not_null"}

Recognised(d, kind) == [k \in DOMAIN d \cap Attrs(kind) |-> d[k]]

\* C15: a field payload with an operator key that the detected filter kind
\* does not define is applied without raising: the key is ignored and the
\* conditions of the keys the kind defines are added.
C15_UnknownKeyIgnored ==
    \A f \in DOMAIN fSchema \cap FCols :
        LET kind == detect_filter_type(fSchema[f])
        IN (/\ fOp = "apply_filters_from_schema"
            /\ get_active_filters(fSchema) = <<f>>
            /\ kind # "None"
            /\ ~(DOMAIN fSchema[f] \subseteq Attrs(kind)))
           => /\ fRaised = "none"
              /\ qb.filters =
                    apply_filter_by_type(fPrev, f, kind, Recognised(fSchema[f], kind)).filters

\* The conditions with operator op the last builder call appended.
AddedOf(op) == SelectSeq(Added, LAMBDA p : p.op = op)

\* C16: applying a temporal filter with from_ set and gte absent adds the
\* condition column >= from_, and with to set and lte absent the condition
\* column <= to; when gte (lte) is set, its value is the bound added.
C16_FromToAliases ==
    (fOp = "apply_datetime_filter" /\ fRaised = "none")
    => /\ (IsSet(fInst, "from_") /\ ~IsSet(fInst, "gte"))
          => AddedOf("gte") = <<Pred("gte", fCol, fInst.d["from_"], <<>>)>>
       /\ (IsSet(fInst, "to") /\ ~IsSet(fInst, "lte"))
          => AddedOf("lte") = <<Pred("lte", fCol, fInst.d["to"], <<>>)>>
       /\ IsSet(fInst, "gte") => AddedOf("gte") = <<Pred("gte", fCol, fInst.d["gte"], <<>>)>>
       /\ IsSet(fInst, "lte") => AddedOf("lte") = <<Pred("lte", fCol, fInst.d["lte"], <<>>)>>

\* The active fields of the applied schema that are no column of the model.
ActiveNoColumn ==
    {f \in DOMAIN fSchema : DOMAIN fSchema[f] # {}} \ FCols

\* C17: applying a schema with an active field that has no column on the
\* model raises an error that reaches the caller; the conditions of the
\* schema are not built with that field silently dropped.
C17_MissingColumnRaises ==
    (fOp = "apply_filters_from_schema" /\ ActiveNoColumn # {})
    => fRaised # "none"

\* The place of a condition's group in the order the specification gives:
\* equality, range/comparison, set membership, pattern, nullness.
SpecGroup(op) ==
    CASE op \in {"eq", "ne"} -> 1
      [] op \in {"gt", "gte", "lt", "lte", "between"} -> 2
      [] op \in {"in", "not_in"} -> 3
      [] op \in {"like", "ilike"} -> 4
      [] OTHER -> 5

\* The place of a condition in the order of the applier: the common
\* operators one by one, then the comparison operators one by one (number
\* and date filters) or the pattern operators (string filters).
CodeRank(op) ==
    CASE op = "eq" -> 1
      [] op = "ne" -> 2
      [] op = "in" -> 3
      [] op = "not_in" -> 4
      [] op = "is_null" -> 5
      [] op = "is_not_null" -> 6
      [] op = "gt" -> 7
      [] op = "gte" -> 8
      [] op = "lt" -> 9
      [] op = "lte" -> 10
      [] op = "between" -> 11
      [] OTHER -> 12

\* C18 as stated: the conditions a typed filter appends come in the group
\* order equality, range/comparison, set membership, pattern, nullness.
C18_SpecGroupOrder ==
    fOp \in TypedApply
    => \A m, n \in 1..Len(Added) :
          m < n => SpecGroup(Added[m].op) <= SpecGroup(Added[n].op)

\* C18, amended: the conditions a typed filter appends come in the order
\* eq, ne, in, not_in, is_null, is_not_null, and only after these the
\* comparison conditions gt, gte, lt, lte, between (number and date filters)
\* or the pattern conditions (string filters); all are on the filter's column.
C18_CommonThenSpecific ==
    fOp \in TypedApply
    => /\ \A n \in 1..Len(Added) : Added[n].col = fCol
       /\ \A m, n \in 1..Len(Added) :
             m < n => /\ CodeRank(Added[m].op) <= CodeRank(Added[n].op)
                      /\ CodeRank(Added[m].op) = CodeRank(Added[n].op)
                         => CodeRank(Added[m].op) = 12

\* A number filter with in_ and gt: the IN condition is appended first.
C18_Witness ==
    /\ fOp = "apply_number_filter"
    /\ fRaised = "none"
    /\ DOMAIN fInst.d = {"gt", "in_"}
    /\ Len(Added) = 2
    /\ Added[1].op = "in"
    /\ Added[2] = Pred("gt", fCol, fInst.d["gt"], <<>>)

-----------------------------------------------------------------------------
(* Claims about the service reads, checked under SpecPage *)

\* The rows at positions (page-1)*per_page+1 .. page*per_page of a sequence,
\* fewer or none when the sequence ends earlier.
PageOf(rows, page, per_page) ==
    LET first == (page - 1) * per_page + 1
        last == IF page * per_page < Len(rows) THEN page * per_page ELSE Len(rows)
    IN [n \in 1..(IF last < first THEN 0 ELSE last - first + 1) |-> rows[first + n - 1]]

\* A filter object without its limit and offset.
Unlimited(filter_data) == [filter_data EXCEPT !.limit = NoneV, !.offset = NoneV]

\* The filtered set in the filter's sort order: the rows matching the field
\* filters of pFilter, ordered by its sort descriptors, without its limit and
\* offset.
FilteredSorted ==
    execute_typed_query(store, apply_base_filters(EmptyBuilder, Unlimited(pFilter)).builder)

\* The rows of the store that satisfy every one of the conditions.
Satisfying(filters) ==
    {i \in DOMAIN store : \A n \in 1..Len(filters) : Holds(filters[n], store[i])}

\* The rows of the store that satisfy every field filter of pFilter.
Matching == Satisfying(apply_filter_to_query(EmptyBuilder, pFilter).builder.filters)

\* C19: paginate(page, per_page, filter) with page >= 1 and per_page >= 1 that
\* returns: the items are the rows at positions (page-1)*per_page+1 ..
\* page*per_page of the filtered set in the filter's sort order, and the total
\* is the number of rows matching the filter's predicates, whatever limit or
\* offset the filter carries.
C19_PaginateItemsAndTotal ==
    (pOp = "paginate" /\ pPage >= 1 /\ pPerPage >= 1 /\ pRaised = "none")
    => /\ pItems = PageOf(FilteredSorted, pPage, pPerPage)
       /\ pTotal = Cardinality(Matching)
       /\ \A n \in 1..Len(pItems) : pItems[n] \in Matching

\* The second page of two rows of a sorted filter that carries a limit and
\* an offset of its own, over four matching rows.
C19_Witness ==
    /\ pOp = "paginate"
    /\ pRaised = "none"
    /\ pPage = 2
    /\ pPerPage = 2
    /\ pFilter.sort # <<>>
    /\ pFilter.limit = Val("int", 1)
    /\ pFilter.offset = Val("int", 1)
    /\ Len(pItems) = 2
    /\ pTotal = 4

\* C20: paginate with page < 1 or per_page < 1 raises ValueError and no count
\* and no fetch was issued to the store.
C20_InvalidPageRaisesFirst ==
    (pOp = "paginate" /\ (pPage < 1 \/ pPerPage < 1))
    => /\ pRaised = "ValueError"
       /\ pQueries = <<>>
       /\ pItems = <<>>

\* paginate(0, 1, filter) with a filter whose field filters would apply.
C20_Witness ==
    /\ pOp = "paginate"
    /\ pPage = 0
    /\ pPerPage = 1
    /\ get_active_filters(pFilter.schema) # <<>>
    /\ apply_base_filters(EmptyBuilder, pFilter).raised = "none"
    /\ pRaised = "ValueError"
    /\ pQueries = <<>>

\* C21: paginate leaves the caller's filter object as it was: its field
\* filters, sort, limit and offset are the same after the call; the page's
\* limit and offset are those of the fetch it issues, set on the copy.
C21_CallerFilterUnchanged ==
    pOp = "paginate"
    => /\ pFilterAfter = pFilter
       /\ \A n \in 1..Len(pQueries) :
             pQueries[n].kind = "select"
             => /\ pQueries[n].builder.limit_value = Val("int", pPerPage)
                /\ pQueries[n].builder.offset_value = Val("int", (pPage - 1) * pPerPage)

\* A page of two rows fetched with a filter that carries limit 1 and offset 1.
C21_Witness ==
    /\ pOp = "paginate"
    /\ pRaised = "none"
    /\ pPerPage = 2
    /\ pFilter.limit = Val("int", 1)
    /\ pFilterAfter.limit = Val("int", 1)
    /\ pFilterAfter.offset = Val("int", 1)
    /\ Len(pQueries) = 2
    /\ pQueries[2].builder.limit_value = Val("int", 2)

\* The first row in the store's own order among the rows matching the field
\* filters of pFilter, None (<<>>) when no row matches.
FirstMatching ==
    IF Matching = {} THEN <<>>
    ELSE <<CHOOSE i \in Matching : \A j \in Matching : i <= j>>

\* C29: get_first(filter) that returns gives the first matching row in the
\* store's own order, None when no row matches; the one query it issues
\* has the filter's field predicates only: no ordering clause, no offset,
\* and not the filter's limit.
C29_GetFirstIgnoresControls ==
    (pOp = "get_first" /\ pRaised = "none")
    => /\ pItems = FirstMatching
       /\ Len(pQueries) = 1
       /\ pQueries[1].builder.order_by_clauses = <<>>
       /\ pQueries[1].builder.offset_value = NoneV
       /\ pQueries[1].builder.limit_value = Val("int", 1)

\* get_first with a filter that sorts by name descending: the row returned
\* is row 1, while the first row under the filter's sort is another one.
C29_Witness ==
    /\ pOp = "get_first"
    /\ pRaised = "none"
    /\ Len(pFilter.sort) = 1
    /\ pFilter.sort[1].field = "name"
    /\ pFilter.sort[1].direction = "desc"
    /\ pFilter.offset = Val("int", 1)
    /\ pItems = <<1>>
    /\ FilteredSorted # <<>>
    /\ FilteredSorted[1] # 1

-----------------------------------------------------------------------------
(* Claims about delete_by_ids, checked under SpecDelete *)

\* The stored ids among those of the list, when the call started.
StoredAtStart == DOMAIN delStart \cap Elems(delIds)

\* C22: delete_by_ids(ids) that ran with no other mutation in between
\* returns the number of distinct stored entities whose id is in ids, not
\* the length of ids; afterwards exists_by_id is false for every id in ids
\* and every other entity is as it was.
C22_DeleteCountsExisting ==
    (delPc = "done" /\ delOther = 0)
    => /\ delResult = Cardinality(StoredAtStart)
       /\ \A i \in Elems(delIds) : ~exists_by_id(tbl, i)
       /\ \A i \in DOMAIN delStart \ Elems(delIds) : i \in DOMAIN tbl /\ tbl[i] = delStart[i]
       /\ DOMAIN tbl \subseteq DOMAIN delStart

\* delete_by_ids of a stored id and a missing one returns 1.
C22_Witness ==
    /\ delPc = "done"
    /\ delOther = 0
    /\ Len(delIds) = 2
    /\ Cardinality(StoredAtStart) = 1
    /\ delResult = 1
    /\ DOMAIN tbl # {}

\* C28: delete_by_ids returns the number of records its own DELETE removed,
\* also when another caller deleted or created entities between the
\* existence check and the DELETE.
C28_ReturnsActuallyDeleted ==
    delPc = "done" => delResult = delRemoved

-----------------------------------------------------------------------------
(* Claims about sorting, checked under SpecSort *)

\* The ordering clause of a sort descriptor.
ClauseOf(d) == Clause(sort_field_to_column_name(d.field), d.direction = "desc", d.nulls)

\* Rows a and b of the store have the same value in the columns of the first
\* k descriptors of sList.
EqualOnFirst(a, b, k) ==
    \A n \in 1..k : store[a][ClauseOf(sList[n]).col] = store[b][ClauseOf(sList[n]).col]

\* C23: applying a sort list appends one ordering clause per descriptor, in
\* list order, after the clauses already on the builder and with each
\* descriptor's own direction; on a builder without earlier clauses the rows
\* come ordered by the first descriptor, and rows equal on the first k-1
\* descriptors come ordered by the k-th.
C23_SortListOrder ==
    (sOp \in {"apply_sort_to_query", "find_all"} /\ sRaised = "none")
    => /\ sBuilder.order_by_clauses = sPrev \o [n \in 1..Len(sList) |-> ClauseOf(sList[n])]
       /\ (sOp = "find_all" /\ sPrev = <<>>)
          => \A a, b \in 1..Len(sRows) : \A k \in 1..Len(sList) :
                (a < b /\ EqualOnFirst(sRows[a], sRows[b], k - 1))
                => ~KeyBefore(store[sRows[b]][ClauseOf(sList[k]).col],
                              store[sRows[a]][ClauseOf(sList[k]).col], ClauseOf(sList[k]))

\* [Sort(age, DESC), Sort(name, ASC)] on a builder without clauses: the rows
\* with the second age come first, and of the two rows with that age the
\* one with the first name comes first.
C23_Witness ==
    /\ sOp = "find_all"
    /\ sPrev = <<>>
    /\ sList = <<Sort("age", "desc", "first"), Sort("name", "asc", "none")>>
    /\ sRows = <<3, 4, 2, 1>>

-----------------------------------------------------------------------------
(* Claims about find_one, checked under SpecFind *)

\* No call is waiting for the store.
NoneWaiting == \A t \in DOMAIN qTask : qTask[t].pc # "waiting"

\* Every call that was started has completed, and at least one was.
AllCompleted ==
    /\ NoneWaiting
    /\ \E t \in DOMAIN qTask : qTask[t].pc = "done"

\* C25: when find_one and find_all calls on one builder interleave at their
\* storage awaits, every find_all runs with the limit the caller configured
\* and, once all calls have completed, limit_value is what it was before.
C25_FindOneSharesNothing ==
    /\ \A t \in DOMAIN qTask :
          qTask[t].op = "find_all" => qTask[t].stmt.limit_value = qStart.limit_value
    /\ AllCompleted => qShared.limit_value = qStart.limit_value

\* C27: find_one calls that ran without interleaving leave limit_value,
\* offset_value, the conditions and the ordering clauses of the builder as
\* they were, both when the call returned and when the store raised; a
\* call that returned gives the first row of the builder's query, or None
\* when no row matches, whatever limit the builder had.
C27_FindOneRestoresBuilder ==
    ~qOverlap
    => /\ NoneWaiting => qShared = qStart
       /\ \A t \in DOMAIN qTask :
             (qTask[t].op = "find_one" /\ qTask[t].pc = "done" /\ qTask[t].raised = "none")
             => qTask[t].rows =
                   FirstOf(execute_typed_query(store, [qStart EXCEPT !.limit_value = NoneV]))

\* A find_one on a builder with limit 0 returned a row, and another one
\* after it raised in the store; the builder still has limit 0.
C27_Witness ==
    /\ ~qOverlap
    /\ qStart.limit_value = Val("int", 0)
    /\ qShared = qStart
    /\ \E t, u \in DOMAIN qTask :
          /\ qTask[t].op = "find_one" /\ qTask[t].pc = "done" /\ qTask[t].rows # <<>>
          /\ qTask[u].op = "find_one" /\ qTask[u].pc = "done" /\ qTask[u].raised = "DBAPIError"

-----------------------------------------------------------------------------
(* Claims about split_dump, checked under SpecDump *)

\* split_dump has returned.
DumpDone == dPos = Len(dump) + 2

\* How many times a line was written to a file.
Times(i, lines) == Cardinality({k \in DOMAIN lines : lines[k] = i})

\* The CREATE TABLE lines after line i.
CreatesAfter(i) == {j \in DOMAIN dump : j > i /\ dump[j].kind = "create"}

\* The table file opened by the CREATE TABLE at line j.
FileOpenedAt(j) == Cardinality({m \in 1..j : dump[m].kind = "create"})

\* The first CREATE TABLE line after line i.
NextCreate(i) == CHOOSE j \in CreatesAfter(i) : \A m \in CreatesAfter(i) : j <= m

\* C30: a SET line read while no table file is open is written once, to
\* the file opened by the next CREATE TABLE, and to no later table file and
\* not to the extras file; only a SET line with no CREATE TABLE after it is
\* written to the extras file.
C30_BufferedSetWrittenOnce ==
    DumpDone
    => \A i \in dBuffered :
          IF CreatesAfter(i) = {}
          THEN /\ Times(i, extras_fp) = 1
               /\ \A k \in DOMAIN table_files : Times(i, table_files[k].lines) = 0
          ELSE /\ Times(i, extras_fp) = 0
               /\ \A k \in DOMAIN table_files :
                     Times(i, table_files[k].lines)
                        = (IF k = FileOpenedAt(NextCreate(i)) THEN 1 ELSE 0)

-----------------------------------------------------------------------------
(* Claims about committing, checked under SpecTxn *)

Mutations ==
    {"create", "create_bulk", "update_by_id", "update_by_ids", "delete_by_id",
     "delete_by_ids"}

\* C24: no create, create_bulk, update or delete operation commits: the
\* durable table is the same after it as before it, so that only
\* save_changes changes it, and a rollback leaves no trace of the
\* operations since the last save_changes.
C24_OnlySaveChangesCommits ==
    /\ txOp \in Mutations \cup {"rollback"} => session.committed = txPrev
    /\ txOp = "rollback" => session = Begun(txPrev)

\* An entity was added and a row updated or deleted in the transaction
\* and the durable table is as it was.
C24_Witness ==
    /\ txOp \in Mutations
    /\ DOMAIN session.new # {}
    /\ session.rows # session.committed
    /\ session.committed = txPrev

-----------------------------------------------------------------------------
(* Claims about key types, checked under SpecKey *)

\* The operation was called with a key that is not of the key type.
WrongKey == \E k \in DOMAIN kKeys : kKeys[k].ty # key_type

\* C26: a repository operation called with a key that is not of the
\* repository's key type raises a precondition error, sends no statement
\* to the store and changes nothing in it.
C26_WrongKeyTypeRejected ==
    (kOp # "none" /\ WrongKey)
    => /\ kRaised = "TypeError"
       /\ kStatements = <<>>
       /\ kTable = kPrev

====
